---------------------------- MODULE Spec2Model ----------------------------
(***************************************************************************)
(* A model of Qpyl.core.qparameter: the QPrm parameter store, its readers  *)
(* (read_prm, read_amber_parm, read_amber_frcmod, read_ffld), the merge    *)
(* _add_prm, the serializer get_string and the _Prm* record classes.       *)
(*                                                                         *)
(* Strings that the code compares, sorts, joins or splits are tuples of    *)
(* character codes (ASCII), so that Python's string order is the order of  *)
(* the model.  Strings that are only copied and compared for equality      *)
(* (comments, option values' words, error kinds) are TLA+ strings.         *)
(* Floats are integers in units of 1e-5.                                   *)
(***************************************************************************)
EXTENDS Integers, Sequences, FiniteSets, TLC

\* ------------------------------------------------------------------------
\* Python builtins the code relies on
\* ------------------------------------------------------------------------

\* str < str : lexicographic order on character codes
RECURSIVE StrLt(_, _)
StrLt(a, b) ==
    IF a = <<>> THEN b # <<>>
    ELSE IF b = <<>> THEN FALSE
    ELSE IF Head(a) # Head(b) THEN Head(a) < Head(b)
    ELSE StrLt(Tail(a), Tail(b))

\* list < list for lists of strings
RECURSIVE ListLt(_, _)
ListLt(x, y) ==
    IF x = <<>> THEN y # <<>>
    ELSE IF y = <<>> THEN FALSE
    ELSE IF Head(x) # Head(y) THEN StrLt(Head(x), Head(y))
    ELSE ListLt(Tail(x), Tail(y))

\* reversed(list)
RECURSIVE Reversed(_)
Reversed(s) == IF s = <<>> THEN <<>> ELSE Append(Reversed(Tail(s)), Head(s))

\* min(a, b) of two lists: the first of the smallest
PyMin(a, b) == IF ListLt(b, a) THEN b ELSE a

\* insertion of a string into a sorted list, after its equals (stable)
RECURSIVE InsertSorted(_, _)
InsertSorted(x, s) ==
    IF s = <<>> THEN <<x>>
    ELSE IF StrLt(x, Head(s)) THEN <<x>> \o s
    ELSE <<Head(s)>> \o InsertSorted(x, Tail(s))

\* sorted(list of strings)
RECURSIVE Sorted(_)
Sorted(s) ==
    IF s = <<>> THEN <<>>
    ELSE InsertSorted(s[Len(s)], Sorted(SubSeq(s, 1, Len(s) - 1)))

\* " ".join(list of strings); 32 is the space character
RECURSIVE Join(_)
Join(l) ==
    IF l = <<>> THEN <<>>
    ELSE IF Len(l) = 1 THEN l[1]
    ELSE l[1] \o <<32>> \o Join(Tail(l))

\* str.split(): the maximal runs of non-space characters
RECURSIVE SplitFrom(_, _)
SplitFrom(s, cur) ==
    IF s = <<>> THEN (IF cur = <<>> THEN <<>> ELSE <<cur>>)
    ELSE IF Head(s) = 32
         THEN (IF cur = <<>> THEN <<>> ELSE <<cur>>) \o SplitFrom(Tail(s), <<>>)
         ELSE SplitFrom(Tail(s), Append(cur, Head(s)))

Split(s) == SplitFrom(s, <<>>)

\* the number of occurrences of character c in s: str.count(c)
RECURSIVE Count(_, _)
Count(s, c) ==
    IF s = <<>> THEN 0
    ELSE (IF Head(s) = c THEN 1 ELSE 0) + Count(Tail(s), c)

\* x in list
InList(x, l) == \E i \in 1..Len(l) : l[i] = x

\* list.pop(i) with a 0-based index: the list without that element
Without(l, i) == SubSeq(l, 1, i) \o SubSeq(l, i + 2, Len(l))

Abs(v) == IF v < 0 THEN -v ELSE v

\* "{:.nf}".format(v) for n = 1, 3, 4 (v in units of 1e-5): the sign that
\* is printed and the rounded magnitude in units of 10^-n
FmtF(v, n) ==
    LET d == IF n = 4 THEN 10 ELSE IF n = 3 THEN 100 ELSE 10000
    IN  <<v < 0, (Abs(v) + (d \div 2)) \div d>>

\* the wildcard atom type "?"
WILD == <<63>>

\* ------------------------------------------------------------------------
\* Canonical identities
\* ------------------------------------------------------------------------

PrmAtom_get_id(atom_type) == atom_type

\* a mutant that joins the atom types in the order given
PrmBond_get_id_unsorted(atom_types) == Join(atom_types)

PrmBond_get_id(atom_types) == Join(Sorted(atom_types))

PrmAngle_get_id(atom_types) == Join(PyMin(atom_types, Reversed(atom_types)))

PrmTorsion_get_id(atom_types) == Join(PyMin(atom_types, Reversed(atom_types)))

\* the peripherals that are no wildcard, sorted
RECURSIVE NotWild(_)
NotWild(l) ==
    IF l = <<>> THEN <<>>
    ELSE (IF Head(l) # WILD THEN <<Head(l)>> ELSE <<>>) \o NotWild(Tail(l))

\* a mutant that keeps the peripherals in the order given
PrmImproper_get_id_unsorted(center_atom_type, other_atom_types) ==
    LET ats == NotWild(other_atom_types)
    IN  IF Len(ats) = 3 THEN [err |-> "", id |-> Join(<<ats[1], center_atom_type, ats[2], ats[3]>>)]
        ELSE IF Len(ats) = 2 THEN [err |-> "", id |-> Join(<<WILD, center_atom_type, ats[1], ats[2]>>)]
        ELSE IF Len(ats) = 1 THEN [err |-> "", id |-> Join(<<WILD, center_atom_type, ats[1], WILD>>)]
        ELSE [err |-> "QPrmError", id |-> <<>>]

\* the identity, or the QPrmError for three wildcards
PrmImproper_get_id(center_atom_type, other_atom_types) ==
    LET ats == NotWild(Sorted(other_atom_types))
    IN  IF Len(ats) = 3 THEN [err |-> "", id |-> Join(<<ats[1], center_atom_type, ats[2], ats[3]>>)]
        ELSE IF Len(ats) = 2 THEN [err |-> "", id |-> Join(<<WILD, center_atom_type, ats[1], ats[2]>>)]
        ELSE IF Len(ats) = 1 THEN [err |-> "", id |-> Join(<<WILD, center_atom_type, ats[1], WILD>>)]
        ELSE [err |-> "QPrmError", id |-> <<>>]

\* ------------------------------------------------------------------------
\* The parameter classes.  An optional float (None or a value) is <<>> or
\* <<v>>; the mass of an atom is <<v>>, or <<>> for the string "<FIX>" that
\* read_ffld stores when it knows no mass.  A missing comment is "".
\* ------------------------------------------------------------------------

\* the comment property: what get_string appends to the line
CommentOf(prm) == IF prm._comment # "" THEN <<" # ", prm._comment>> ELSE <<>>

PrmAtom(atom_type, mass, lj_A, lj_B, lj_R, lj_eps, comment) ==
    [cls |-> "atom", atom_type |-> atom_type,
     prm_id |-> PrmAtom_get_id(atom_type),
     lj_A |-> lj_A, lj_B |-> lj_B, lj_R |-> lj_R, lj_eps |-> lj_eps,
     mass |-> mass, _comment |-> comment]

\* str(atom): formatting None or "<FIX>" with {:.3f} raises
PrmAtom_repr(p) ==
    IF p.lj_A # <<>>
    THEN IF p.lj_B = <<>> THEN [err |-> "TypeError", s |-> <<>>]
         ELSE IF p.mass = <<>> THEN [err |-> "ValueError", s |-> <<>>]
         ELSE [err |-> "", s |-> <<"_PrmAtom", p.prm_id, "lj_A", FmtF(p.lj_A[1], 3),
                                   "lj_B", FmtF(p.lj_B[1], 3), "mass", FmtF(p.mass[1], 3)>>]
    ELSE IF p.lj_R = <<>> \/ p.lj_eps = <<>> THEN [err |-> "TypeError", s |-> <<>>]
         ELSE IF p.mass = <<>> THEN [err |-> "ValueError", s |-> <<>>]
         ELSE [err |-> "", s |-> <<"_PrmAtom", p.prm_id, "lj_R", FmtF(p.lj_R[1], 3),
                                   "lj_eps", FmtF(p.lj_eps[1], 3), "mass", FmtF(p.mass[1], 3)>>]

PrmBond(atom_types, fc, r0, comment) ==
    LET id == PrmBond_get_id(atom_types)
    IN  [cls |-> "bond", fc |-> fc, r0 |-> r0, prm_id |-> id,
         atom_types |-> Split(id), _comment |-> comment]

\* a mutant that prints the force constant with one decimal only
PrmBond_repr_coarse(p) ==
    [err |-> "", s |-> <<"_PrmBond", p.prm_id, "fc", FmtF(p.fc, 1), "r0", FmtF(p.r0, 3)>>]

PrmBond_repr(p) ==
    [err |-> "", s |-> <<"_PrmBond", p.prm_id, "fc", FmtF(p.fc, 3), "r0", FmtF(p.r0, 3)>>]

PrmAngle(atom_types, fc, theta0, comment) ==
    LET id == PrmAngle_get_id(atom_types)
    IN  [cls |-> "angle", fc |-> fc, theta0 |-> theta0, prm_id |-> id,
         atom_types |-> Split(id), _comment |-> comment]

PrmAngle_repr(p) ==
    [err |-> "", s |-> <<"_PrmAngle", p.prm_id, "fc", FmtF(p.fc, 3), "th0", FmtF(p.theta0, 3)>>]

\* a torsion holds its terms in the order they were added (the four
\* parallel lists fcs, multiplicities, phases, npaths as one list)
PrmTorsion(atom_types, comment) ==
    LET id == PrmTorsion_get_id(atom_types)
    IN  [cls |-> "torsion", is_generic |-> InList(WILD, atom_types),
         terms |-> <<>>, prm_id |-> id, atom_types |-> Split(id),
         _comment |-> comment]

\* a mutant of add_prm that takes every term
PrmTorsion_add_prm_any(t, fc, multiplicity, phase, npaths) ==
    [err |-> "",
     prm |-> [t EXCEPT !.terms = Append(@, [fc |-> fc, multiplicity |-> multiplicity,
                                             phase |-> phase, npaths |-> npaths])]]

\* add_prm: ValueError for a multiplicity (absolute value) already there;
\* the sign is dropped when the phase is 0 or 180 degrees
PrmTorsion_add_prm(t, fc, multiplicity, phase, npaths) ==
    LET amult == Abs(multiplicity)
        m     == IF phase = 0 \/ phase = 18000000 THEN amult ELSE multiplicity
    IN  IF \E i \in 1..Len(t.terms) : amult = Abs(t.terms[i].multiplicity)
        THEN [err |-> "ValueError", prm |-> t]
        ELSE [err |-> "",
              prm |-> [t EXCEPT !.terms = Append(@, [fc |-> fc, multiplicity |-> m,
                                                      phase |-> phase, npaths |-> npaths])]]

\* insertion of a term into a list sorted by multiplicity, after its equals
RECURSIVE InsertTerm(_, _)
InsertTerm(x, s) ==
    IF s = <<>> THEN <<x>>
    ELSE IF x.multiplicity < Head(s).multiplicity THEN <<x>> \o s
    ELSE <<Head(s)>> \o InsertTerm(x, Tail(s))

RECURSIVE SortTerms(_)
SortTerms(s) ==
    IF s = <<>> THEN <<>>
    ELSE InsertTerm(s[Len(s)], SortTerms(SubSeq(s, 1, Len(s) - 1)))

\* a mutant that returns the terms in the order they were added
PrmTorsion_get_prms_unsorted(t) == t.terms

\* get_prms: the terms in ascending order of multiplicity
PrmTorsion_get_prms(t) == SortTerms(t.terms)

\* str(torsion): unpacking the terms of a torsion without terms raises
PrmTorsion_repr(t) ==
    LET prms == PrmTorsion_get_prms(t)
    IN  IF prms = <<>> THEN [err |-> "ValueError", s |-> <<>>]
        ELSE [err |-> "",
              s |-> <<"_PrmTorsion", t.prm_id,
                      "fcs", [i \in 1..Len(prms) |-> FmtF(prms[i].fc, 4)],
                      "multiplicities", [i \in 1..Len(prms) |-> FmtF(prms[i].multiplicity, 1)],
                      "phi0", [i \in 1..Len(prms) |-> FmtF(prms[i].phase, 1)],
                      "npaths", [i \in 1..Len(prms) |-> FmtF(prms[i].npaths, 1)]>>]

\* _PrmImproper(...): the error message of the multiplicity check formats
\* the half-built object, whose prm_id is not set yet, so the constructor
\* ends with AttributeError there; three wildcards end with QPrmError
PrmImproper(center_atom_type, other_atom_types, fc, phi0, multiplicity, comment) ==
    LET g == PrmImproper_get_id(center_atom_type, other_atom_types)
    IN  IF Abs(multiplicity) > 200001 THEN [err |-> "AttributeError", prm |-> <<>>]
        ELSE IF g.err # "" THEN [err |-> g.err, prm |-> <<>>]
        ELSE [err |-> "",
              prm |-> [cls |-> "improper",
                       is_generic |-> InList(WILD, other_atom_types),
                       fc |-> fc, phi0 |-> phi0, multiplicity |-> multiplicity,
                       prm_id |-> g.id, atom_types |-> Split(g.id),
                       _comment |-> comment]]

PrmImproper_repr(p) ==
    [err |-> "", s |-> <<"_PrmImproper", p.prm_id, "fc", FmtF(p.fc, 3), "phi0", FmtF(p.phi0, 3)>>]

\* str(prm)
Repr(prm) ==
    CASE prm.cls = "atom"     -> PrmAtom_repr(prm)
      [] prm.cls = "bond"     -> PrmBond_repr(prm)
      [] prm.cls = "angle"    -> PrmAngle_repr(prm)
      [] prm.cls = "torsion"  -> PrmTorsion_repr(prm)
      [] prm.cls = "improper" -> PrmImproper_repr(prm)

\* ------------------------------------------------------------------------
\* The store (QPrm) and the merge
\* ------------------------------------------------------------------------

VARIABLES
    ignore_errors,      \* QPrm.ignore_errors
    ff_type,            \* QPrm.ff_type: "oplsaa" or "amber"
    options,            \* OrderedDict: a sequence of <<key, value>>
    amber_masses,       \* atom type -> mass
    atom_types,         \* prm_id -> _PrmAtom
    bonds,              \* prm_id -> _PrmBond
    angles,             \* prm_id -> _PrmAngle
    generic_torsions,   \* prm_id -> _PrmTorsion with wildcards
    torsions,           \* prm_id -> _PrmTorsion
    generic_impropers,  \* prm_id -> _PrmImproper with wildcards
    impropers,          \* prm_id -> _PrmImproper
    result,             \* what the last operation returned, raised and logged
    nops,               \* the number of operations performed
    probe,              \* the input and output of a pure function
    class_order         \* the order in which the interpreter iterates over
                        \* the dict of the parsed records, by class

vars == <<ignore_errors, ff_type, options, amber_masses, atom_types, bonds,
          angles, generic_torsions, torsions, generic_impropers, impropers,
          result, nops, probe, class_order>>

tables == <<atom_types, bonds, angles, generic_torsions, torsions,
            generic_impropers, impropers>>

\* the function with empty domain: an empty dictionary
EmptyDict == [x \in {} |-> <<>>]

\* the store as one value
Store ==
    [options |-> options, amber_masses |-> amber_masses,
     atom_types |-> atom_types, bonds |-> bonds, angles |-> angles,
     generic_torsions |-> generic_torsions, torsions |-> torsions,
     generic_impropers |-> generic_impropers, impropers |-> impropers]

\* the keys of force_fields, "oplsaa" and "amber", with the value ff_type
\* takes for each
force_fields ==
    (<<111, 112, 108, 115, 97, 97>> :> "oplsaa") @@ (<<97, 109, 98, 101, 114>> :> "amber")

\* QPrm.__init__: every mapping empty
EmptyStore ==
    [options |-> <<>>, amber_masses |-> EmptyDict,
     atom_types |-> EmptyDict, bonds |-> EmptyDict, angles |-> EmptyDict,
     generic_torsions |-> EmptyDict, torsions |-> EmptyDict,
     generic_impropers |-> EmptyDict, impropers |-> EmptyDict]

\* QPrm(ff_type, ignore_errors): the name is compared in lower case
QPrm_init(name, ignore) ==
    LET ff == [i \in 1..Len(name) |->
                  IF name[i] >= 65 /\ name[i] <= 90 THEN name[i] + 32 ELSE name[i]]
    IN  IF ff \notin DOMAIN force_fields
        THEN [err |-> "QPrmError", ff_type |-> "", ignore_errors |-> ignore, st |-> <<>>]
        ELSE [err |-> "", ff_type |-> force_fields[ff], ignore_errors |-> ignore,
              st |-> EmptyStore]

SetStore(st) ==
    /\ options' = st.options
    /\ amber_masses' = st.amber_masses
    /\ atom_types' = st.atom_types
    /\ bonds' = st.bonds
    /\ angles' = st.angles
    /\ generic_torsions' = st.generic_torsions
    /\ torsions' = st.torsions
    /\ generic_impropers' = st.generic_impropers
    /\ impropers' = st.impropers

\* the names of the seven parameter tables
TableNames ==
    {"atom_types", "bonds", "angles", "generic_torsions", "torsions",
     "generic_impropers", "impropers"}

\* the dictionary _add_prm selects for a record
TableOf(prm) ==
    CASE prm.cls = "atom"     -> "atom_types"
      [] prm.cls = "bond"     -> "bonds"
      [] prm.cls = "angle"    -> "angles"
      [] prm.cls = "torsion"  -> IF prm.is_generic THEN "generic_torsions" ELSE "torsions"
      [] prm.cls = "improper" -> IF prm.is_generic THEN "generic_impropers" ELSE "impropers"

\* dict[key] = value
DictSet(d, k, v) == [x \in DOMAIN d \cup {k} |-> IF x = k THEN v ELSE d[x]]

\* Qpyl.common.raise_or_log(message, exc, logger, ignore_errors): the
\* exception is raised unless errors are ignored, and then it is logged
raise_or_log(exc, ignore) == IF ignore THEN "" ELSE exc

\* a mutant of the merge that keeps the stored record when the incoming
\* one has the same string representation
add_prm_keep(st, prm, ignore) ==
    LET tn == TableOf(prm)
        d  == st[tn]
    IN  IF prm.prm_id \in DOMAIN d
        THEN LET sa1 == Repr(prm)
                 sa2 == Repr(d[prm.prm_id])
             IN  IF sa1.err # "" THEN [err |-> sa1.err, st |-> st, old |-> <<>>, log |-> <<>>]
                 ELSE IF sa2.err # "" THEN [err |-> sa2.err, st |-> st, old |-> <<>>, log |-> <<>>]
                 ELSE IF sa1.s # sa2.s
                 THEN IF raise_or_log("QPrmError", ignore) # ""
                      THEN [err |-> "QPrmError", st |-> st, old |-> <<>>, log |-> <<>>]
                      ELSE [err |-> "",
                            st  |-> [st EXCEPT ![tn] = DictSet(d, prm.prm_id, prm)],
                            old |-> <<d[prm.prm_id]>>,
                            log |-> <<[what |-> "conflict", tbl |-> tn, id |-> prm.prm_id]>>]
                 ELSE [err |-> "", st |-> st, old |-> <<>>,
                       log |-> <<[what |-> "duplicate", tbl |-> tn, id |-> prm.prm_id]>>]
        ELSE [err |-> "", st |-> [st EXCEPT ![tn] = DictSet(d, prm.prm_id, prm)],
              old |-> <<>>, log |-> <<>>]

\* a mutant of the merge that overwrites without comparing
add_prm_blind(st, prm, ignore) ==
    LET tn == TableOf(prm)
    IN  [err |-> "", st |-> [st EXCEPT ![tn] = DictSet(st[tn], prm.prm_id, prm)],
         old |-> <<>>, log |-> <<>>]

\* a mutant of the merge that returns the stored record of a duplicate too
add_prm_audit_all(st, prm, ignore) ==
    LET tn == TableOf(prm)
        d  == st[tn]
    IN  IF prm.prm_id \in DOMAIN d
        THEN LET sa1 == Repr(prm)
                 sa2 == Repr(d[prm.prm_id])
             IN  IF sa1.err # "" THEN [err |-> sa1.err, st |-> st, old |-> <<>>, log |-> <<>>]
                 ELSE IF sa2.err # "" THEN [err |-> sa2.err, st |-> st, old |-> <<>>, log |-> <<>>]
                 ELSE IF sa1.s # sa2.s
                 THEN IF raise_or_log("QPrmError", ignore) # ""
                      THEN [err |-> "QPrmError", st |-> st, old |-> <<>>, log |-> <<>>]
                      ELSE [err |-> "",
                            st  |-> [st EXCEPT ![tn] = DictSet(d, prm.prm_id, prm)],
                            old |-> <<d[prm.prm_id]>>,
                            log |-> <<[what |-> "conflict", tbl |-> tn, id |-> prm.prm_id]>>]
                 ELSE [err |-> "",
                       st  |-> [st EXCEPT ![tn] = DictSet(d, prm.prm_id, prm)],
                       old |-> <<d[prm.prm_id]>>,
                       log |-> <<[what |-> "duplicate", tbl |-> tn, id |-> prm.prm_id]>>]
        ELSE [err |-> "", st |-> [st EXCEPT ![tn] = DictSet(d, prm.prm_id, prm)],
              old |-> <<>>, log |-> <<>>]

\* QPrm._add_prm: err is the exception raised ("" for none), st the store
\* afterwards, old the returned record (<<>> for None), log what was logged.
\* The incoming record is stored in every case that does not raise.
add_prm(st, prm, ignore) ==
    LET tn == TableOf(prm)
        d  == st[tn]
    IN  IF prm.prm_id \in DOMAIN d
        THEN LET sa1 == Repr(prm)
                 sa2 == Repr(d[prm.prm_id])
             IN  IF sa1.err # "" THEN [err |-> sa1.err, st |-> st, old |-> <<>>, log |-> <<>>]
                 ELSE IF sa2.err # "" THEN [err |-> sa2.err, st |-> st, old |-> <<>>, log |-> <<>>]
                 ELSE IF sa1.s # sa2.s
                 THEN IF raise_or_log("QPrmError", ignore) # ""
                      THEN [err |-> "QPrmError", st |-> st, old |-> <<>>, log |-> <<>>]
                      ELSE [err |-> "",
                            st  |-> [st EXCEPT ![tn] = DictSet(d, prm.prm_id, prm)],
                            old |-> <<d[prm.prm_id]>>,
                            log |-> <<[what |-> "conflict", tbl |-> tn, id |-> prm.prm_id]>>]
                 ELSE [err |-> "",
                       st  |-> [st EXCEPT ![tn] = DictSet(d, prm.prm_id, prm)],
                       old |-> <<>>,
                       log |-> <<[what |-> "duplicate", tbl |-> tn, id |-> prm.prm_id]>>]
        ELSE [err |-> "", st |-> [st EXCEPT ![tn] = DictSet(d, prm.prm_id, prm)],
              old |-> <<>>, log |-> <<>>]

\* the loop that ends every reader: the records are merged in the order
\* given; the first exception ends the loop and keeps the merges done
RECURSIVE MergeFrom(_, _, _, _, _)
MergeFrom(st, prms, ignore, dups, log) ==
    IF prms = <<>> THEN [err |-> "", st |-> st, dups |-> dups, log |-> log]
    ELSE LET r == add_prm(st, Head(prms), ignore)
         IN  IF r.err # "" THEN [err |-> r.err, st |-> r.st, dups |-> dups, log |-> log]
             ELSE MergeFrom(r.st, Tail(prms), ignore, dups \o r.old, log \o r.log)

\* ------------------------------------------------------------------------
\* read_prm: the native format
\*
\* A file is a sequence of lines, each already split at the first comment
\* character and stripped:
\*   [kind |-> "blank"]                      nothing left of the line
\*   [kind |-> "section", name |-> n]        a line that starts with "["
\*   [kind |-> "data", toks |-> t, comment |-> c]
\* A token is [s |-> its text, f |-> <<v>> if float() parses it, else <<>>];
\* the text of a numeric token is not modelled (s = <<>>), and the files of
\* the model put no numeric token where a name is read.
\* ------------------------------------------------------------------------

W(s) == [s |-> s, f |-> <<>>]

N(v) == [s |-> <<>>, f |-> <<v>>]

\* float(parms[i]) for a 0-based index succeeds
IsFloat(parms, i) == i < Len(parms) /\ parms[i + 1].f # <<>>

Float(parms, i) == parms[i + 1].f[1]

\* the texts of parms[a:b]
RECURSIVE Texts(_, _, _)
Texts(parms, a, b) ==
    IF a >= b \/ a >= Len(parms) THEN <<>>
    ELSE <<parms[a + 1].s>> \o Texts(parms, a + 1, b)

\* key in OrderedDict
HasKey(od, k) == \E i \in 1..Len(od) : od[i][1] = k

\* OrderedDict[key]
Lookup(od, k) == od[CHOOSE i \in 1..Len(od) : od[i][1] = k][2]

\* OrderedDict[key] = value: a new key goes last, a known key keeps its place
OdSet(od, k, v) ==
    IF HasKey(od, k)
    THEN [i \in 1..Len(od) |-> IF od[i][1] = k THEN <<k, v>> ELSE od[i]]
    ELSE Append(od, <<k, v>>)

\* the parser's state before the first line
ParseInit(opts) ==
    [err |-> "", section |-> "", options |-> opts,
     atoms |-> <<>>, bonds |-> <<>>, angles |-> <<>>, torsions |-> <<>>,
     impropers |-> <<>>]

Fail(ps, e) == [ps EXCEPT !.err = e]

\* a line of [options]: a known key with another value reaches the call of
\* raise_or_log, whose message has two fields and one argument, so that
\* str.format raises IndexError before raise_or_log runs
read_prm_options(ps, parms) ==
    IF Len(parms) # 2 THEN Fail(ps, "QPrmError")
    ELSE LET key == parms[1].s
             value == parms[2].s
         IN  IF HasKey(ps.options, key) /\ value # Lookup(ps.options, key)
             THEN Fail(ps, "IndexError")
             ELSE [ps EXCEPT !.options = OdSet(@, key, value)]

read_prm_atom(ps, parms, comment, ff) ==
    IF ~(Len(parms) >= 1 /\ IsFloat(parms, 1) /\ IsFloat(parms, 3) /\ IsFloat(parms, 6))
    THEN Fail(ps, "QPrmError")
    ELSE LET mass == <<Float(parms, 6)>>
             a == IF ff = "oplsaa"
                  THEN PrmAtom(parms[1].s, mass, <<Float(parms, 1)>>, <<Float(parms, 3)>>,
                               <<>>, <<>>, comment)
                  ELSE PrmAtom(parms[1].s, mass, <<>>, <<>>,
                               <<Float(parms, 1)>>, <<Float(parms, 3)>>, comment)
         IN  [ps EXCEPT !.atoms = Append(@, a)]

read_prm_bond(ps, parms, comment) ==
    IF ~(IsFloat(parms, 2) /\ IsFloat(parms, 3)) THEN Fail(ps, "QPrmError")
    ELSE [ps EXCEPT !.bonds = Append(@, PrmBond(Texts(parms, 0, 2), Float(parms, 2),
                                                 Float(parms, 3), comment))]

read_prm_angle(ps, parms, comment) ==
    IF ~(IsFloat(parms, 3) /\ IsFloat(parms, 4)) THEN Fail(ps, "QPrmError")
    ELSE [ps EXCEPT !.angles = Append(@, PrmAngle(Texts(parms, 0, 3), Float(parms, 3),
                                                   Float(parms, 4), comment))]

\* a mutant of the [torsions] parser that starts a new torsion at every
\* line
read_prm_torsion_split(ps, parms, comment) ==
    IF ~(\A i \in 4..7 : IsFloat(parms, i))
    THEN [ps EXCEPT !.err = "QPrmError"]
    ELSE LET r == PrmTorsion_add_prm(PrmTorsion(Texts(parms, 0, 4), comment),
                                     Float(parms, 4), Float(parms, 5),
                                     Float(parms, 6), Float(parms, 7))
         IN  [ps EXCEPT !.torsions = Append(@, r.prm)]

\* a line of [torsions]: a line with the identity of the torsion parsed
\* last adds its term to that torsion, any other line starts a new one;
\* a ValueError of add_prm is turned into QPrmError
read_prm_torsion(ps, parms, comment) ==
    IF ~(IsFloat(parms, 4) /\ IsFloat(parms, 5) /\ IsFloat(parms, 6) /\ IsFloat(parms, 7))
    THEN Fail(ps, "QPrmError")
    ELSE LET new  == PrmTorsion(Texts(parms, 0, 4), comment)
             n    == Len(ps.torsions)
             fold == n > 0 /\ new.prm_id = ps.torsions[n].prm_id
             t    == IF fold THEN ps.torsions[n] ELSE new
             r    == PrmTorsion_add_prm(t, Float(parms, 4), Float(parms, 5),
                                        Float(parms, 6), Float(parms, 7))
             \* the new torsion is appended before add_prm is called
             lst  == IF fold THEN [ps.torsions EXCEPT ![n] = r.prm]
                     ELSE Append(ps.torsions, r.prm)
         IN  IF r.err # "" THEN [ps EXCEPT !.err = "QPrmError", !.torsions = lst]
             ELSE [ps EXCEPT !.torsions = lst]

\* a line of [impropers]: the second atom type is the center
read_prm_improper(ps, parms, comment) ==
    IF ~(Len(parms) >= 2 /\ IsFloat(parms, 4) /\ IsFloat(parms, 5))
    THEN Fail(ps, "QPrmError")
    ELSE LET ats == Texts(parms, 0, 4)
             r == PrmImproper(ats[2], Without(ats, 1), Float(parms, 4),
                              Float(parms, 5), 200000, comment)
         IN  IF r.err # "" THEN Fail(ps, r.err)
             ELSE [ps EXCEPT !.impropers = Append(@, r.prm)]

\* a mutant of the reader that skips the lines of a section it does not know
read_prm_line_lenient(ps, line, ff) ==
    IF line.kind = "blank" THEN ps
    ELSE IF line.kind = "section" THEN [ps EXCEPT !.section = line.name]
    ELSE IF ps.section = "" THEN Fail(ps, "QPrmError")
    ELSE CASE ps.section = "options"    -> read_prm_options(ps, line.toks)
           [] ps.section = "atom_types" -> read_prm_atom(ps, line.toks, line.comment, ff)
           [] ps.section = "bonds"      -> read_prm_bond(ps, line.toks, line.comment)
           [] ps.section = "angles"     -> read_prm_angle(ps, line.toks, line.comment)
           [] ps.section = "torsions"   -> read_prm_torsion(ps, line.toks, line.comment)
           [] ps.section = "impropers"  -> read_prm_improper(ps, line.toks, line.comment)
           [] OTHER                     -> ps

\* one line of the file
read_prm_line(ps, line, ff) ==
    IF line.kind = "blank" THEN ps
    ELSE IF line.kind = "section" THEN [ps EXCEPT !.section = line.name]
    ELSE IF ps.section = "" THEN Fail(ps, "QPrmError")
    ELSE CASE ps.section = "options"    -> read_prm_options(ps, line.toks)
           [] ps.section = "atom_types" -> read_prm_atom(ps, line.toks, line.comment, ff)
           [] ps.section = "bonds"      -> read_prm_bond(ps, line.toks, line.comment)
           [] ps.section = "angles"     -> read_prm_angle(ps, line.toks, line.comment)
           [] ps.section = "torsions"   -> read_prm_torsion(ps, line.toks, line.comment)
           [] ps.section = "impropers"  -> read_prm_improper(ps, line.toks, line.comment)
           [] OTHER                     -> Fail(ps, "QPrmError")

\* the loop over the lines: the first exception ends it
RECURSIVE read_prm_lines(_, _, _)
read_prm_lines(ps, lines, ff) ==
    IF lines = <<>> \/ ps.err # "" THEN ps
    ELSE read_prm_lines(read_prm_line(ps, Head(lines), ff), Tail(lines), ff)

\* the records of a parse in the order the readers merge them: class by
\* class in the iteration order of the dict prms, in file order within a
\* class
MergeOrder(ps) ==
    ps[class_order[1]] \o ps[class_order[2]] \o ps[class_order[3]]
    \o ps[class_order[4]] \o ps[class_order[5]]

\* the outcome r of a reader together with the records its parse ps handed
\* to the merge loop (none when the parse raised)
Handed(r, ps) ==
    [err |-> r.err, st |-> r.st, dups |-> r.dups, log |-> r.log,
     parsed |-> ps.err = "",
     prms |-> IF ps.err = "" THEN MergeOrder(ps) ELSE <<>>]

\* a reader called on a store of another force field raises at once
WrongForceField(st) ==
    [err |-> "QPrmError", st |-> st, dups |-> <<>>, log |-> <<>>,
     parsed |-> FALSE, prms |-> <<>>]

\* a mutant of read_prm that merges the records of the lines before the
\* line that raised
read_prm_eager(st, file, ff, ignore) ==
    LET ps  == read_prm_lines(ParseInit(st.options), file, ff)
        st1 == [st EXCEPT !.options = ps.options]
        m   == MergeFrom(st1, MergeOrder(ps), ignore, <<>>, <<>>)
    IN  Handed(IF ps.err # ""
               THEN [err |-> ps.err, st |-> m.st, dups |-> <<>>, log |-> m.log]
               ELSE m, ps)

\* QPrm.read_prm: options are written while parsing, the records are merged
\* after the last line
read_prm(st, file, ff, ignore) ==
    LET ps  == read_prm_lines(ParseInit(st.options), file, ff)
        st1 == [st EXCEPT !.options = ps.options]
    IN  Handed(IF ps.err # ""
               THEN [err |-> ps.err, st |-> st1, dups |-> <<>>, log |-> <<>>]
               ELSE MergeFrom(st1, MergeOrder(ps), ignore, <<>>, <<>>), ps)

\* ------------------------------------------------------------------------
\* read_amber_parm and read_amber_frcmod: the fixed-column formats
\*
\* A file is a record of its blocks, each a sequence of lines up to the
\* blank line that ends it.  A line of a whitespace-split block (masses,
\* alias rows, non-bonded) is a sequence of tokens; a line of a
\* fixed-column block is [cols |-> the texts of its atom-type columns,
\* and one field per number: <<v>> if float() parses its columns, else <<>>].
\* ------------------------------------------------------------------------

\* str.strip() of a column
RECURSIVE LStrip(_)
LStrip(s) == IF s # <<>> /\ Head(s) = 32 THEN LStrip(Tail(s)) ELSE s

Strip(s) == Reversed(LStrip(Reversed(LStrip(s))))

\* str.replace("*", "star"); 42 is "*"
RECURSIVE ReplaceStar(_)
ReplaceStar(s) ==
    IF s = <<>> THEN <<>>
    ELSE (IF Head(s) = 42 THEN <<115, 116, 97, 114>> ELSE <<Head(s)>>)
         \o ReplaceStar(Tail(s))

\* the atom types of a bond or angle line
AmberTypes(cols) == [i \in 1..Len(cols) |-> ReplaceStar(Strip(cols[i]))]

\* the atom types of a torsion or improper line: "X" (88) is the wildcard
AmberTypesX(cols) ==
    [i \in 1..Len(cols) |-> LET x == ReplaceStar(Strip(cols[i])) IN IF x = <<88>> THEN WILD ELSE x]

AmberInit(masses) ==
    [err |-> "", masses |-> masses, atoms |-> <<>>, bonds |-> <<>>,
     angles |-> <<>>, torsions |-> <<>>, impropers |-> <<>>,
     mult_prev |-> 100000, same_types |-> EmptyDict, log |-> <<>>]

\* a line of the mass block of a full parameter set: a known type with
\* another mass goes to raise_or_log; the known mass is kept in any case
read_amber_parm_mass(ps, line, ignore) ==
    IF ~IsFloat(line, 1) THEN Fail(ps, "QPrmError")
    ELSE LET atom_name == ReplaceStar(line[1].s)
             mass == Float(line, 1)
         IN  IF atom_name \notin DOMAIN ps.masses
             THEN [ps EXCEPT !.masses = DictSet(@, atom_name, mass)]
             ELSE IF Abs(mass - ps.masses[atom_name]) > 1
             THEN IF raise_or_log("QPrmError", ignore) # ""
                  THEN Fail(ps, "QPrmError")
                  ELSE [ps EXCEPT !.log = Append(@, [what |-> "mass",
                                                     tbl |-> "amber_masses",
                                                     id |-> atom_name])]
             ELSE ps

\* a line of the mass block of a patch set: another mass always raises
read_amber_frcmod_mass(ps, line, ignore) ==
    IF ~IsFloat(line, 1) THEN Fail(ps, "QPrmError")
    ELSE LET atom_name == ReplaceStar(line[1].s)
             mass == Float(line, 1)
         IN  IF atom_name \notin DOMAIN ps.masses
             THEN [ps EXCEPT !.masses = DictSet(@, atom_name, mass)]
             ELSE IF Abs(mass - ps.masses[atom_name]) > 1
             THEN Fail(ps, "QPrmError")
             ELSE ps

\* a mutant of the legacy bond line that keeps the force constant of the
\* file
read_amber_bond_plain(ps, line) ==
    IF line.fc = <<>> \/ line.r0 = <<>> THEN [ps EXCEPT !.err = "QPrmError"]
    ELSE [ps EXCEPT !.bonds = Append(@, PrmBond(AmberTypes(line.cols), line.fc[1],
                                                 line.r0[1], ""))]

\* a bond line: the force constant is doubled
read_amber_bond(ps, line) ==
    IF line.fc = <<>> \/ line.r0 = <<>> THEN Fail(ps, "QPrmError")
    ELSE [ps EXCEPT !.bonds = Append(@, PrmBond(AmberTypes(line.cols), line.fc[1] * 2,
                                                 line.r0[1], ""))]

\* an angle line: the force constant is doubled
read_amber_angle(ps, line) ==
    IF line.fc = <<>> \/ line.t0 = <<>> THEN Fail(ps, "QPrmError")
    ELSE [ps EXCEPT !.angles = Append(@, PrmAngle(AmberTypes(line.cols), line.fc[1] * 2,
                                                   line.t0[1], ""))]

\* a mutant of the legacy torsion line that continues the torsion of the
\* line before it whenever the identities are equal
read_amber_torsion_adjacent(ps, line) ==
    IF line.npaths = <<>> \/ line.fc = <<>> \/ line.phase = <<>> \/ line.mult = <<>>
    THEN [ps EXCEPT !.err = "QPrmError"]
    ELSE LET a_types == AmberTypesX(line.cols)
             n       == Len(ps.torsions)
             fold    == n > 0 /\ ps.torsions[n].prm_id = PrmTorsion_get_id(a_types)
             r       == PrmTorsion_add_prm(IF fold THEN ps.torsions[n]
                                           ELSE PrmTorsion(a_types, ""),
                                           line.fc[1], Abs(line.mult[1]),
                                           line.phase[1], line.npaths[1])
             lst     == IF fold THEN [ps.torsions EXCEPT ![n] = r.prm]
                        ELSE Append(ps.torsions, r.prm)
         IN  IF r.err # ""
             THEN [ps EXCEPT !.err = "QPrmError", !.torsions = lst,
                             !.mult_prev = line.mult[1]]
             ELSE [ps EXCEPT !.torsions = lst, !.mult_prev = line.mult[1]]

\* a torsion line: it continues the torsion of the line before it when
\* that line had a negative multiplicity and has the same identity
read_amber_torsion(ps, line) ==
    IF line.npaths = <<>> \/ line.fc = <<>> \/ line.phase = <<>> \/ line.mult = <<>>
    THEN Fail(ps, "QPrmError")
    ELSE LET a_types == AmberTypesX(line.cols)
             prm_id  == PrmTorsion_get_id(a_types)
             n       == Len(ps.torsions)
             fold    == n > 0 /\ ps.torsions[n].prm_id = prm_id /\ ps.mult_prev < 0
             t       == IF fold THEN ps.torsions[n] ELSE PrmTorsion(a_types, "")
             r       == PrmTorsion_add_prm(t, line.fc[1], Abs(line.mult[1]),
                                           line.phase[1], line.npaths[1])
             lst     == IF fold THEN [ps.torsions EXCEPT ![n] = r.prm]
                        ELSE Append(ps.torsions, r.prm)
         IN  IF r.err # ""
             THEN [ps EXCEPT !.err = "QPrmError", !.torsions = lst,
                             !.mult_prev = line.mult[1]]
             ELSE [ps EXCEPT !.torsions = lst, !.mult_prev = line.mult[1]]

\* an improper line: the third atom type is the center, and the
\* multiplicity of the line is handed to the record as it is
read_amber_improper(ps, line) ==
    IF line.fc = <<>> \/ line.phi0 = <<>> \/ line.mult = <<>>
    THEN Fail(ps, "QPrmError")
    ELSE LET a_types == AmberTypesX(line.cols)
             r == PrmImproper(a_types[3], Without(a_types, 2), line.fc[1],
                              line.phi0[1], line.mult[1], "")
         IN  IF r.err # "" THEN Fail(ps, r.err)
             ELSE [ps EXCEPT !.impropers = Append(@, r.prm)]

\* a row of the alias table: its first type names the whole row
read_amber_same(ps, line) ==
    LET row == [i \in 1..Len(line) |-> ReplaceStar(line[i].s)]
    IN  [ps EXCEPT !.same_types = DictSet(@, row[1], row)]

\* the atom types made from one non-bonded line, all with the given mass
RECURSIVE AtomsOf(_, _, _, _)
AtomsOf(names, mass, lj_R, lj_eps) ==
    IF names = <<>> THEN <<>>
    ELSE <<PrmAtom(Head(names), <<mass>>, <<>>, <<>>, <<lj_R>>, <<lj_eps>>, "")>>
         \o AtomsOf(Tail(names), mass, lj_R, lj_eps)

\* a mutant of the non-bonded line of a full parameter set that makes one
\* atom type, the one of the line
read_amber_parm_nonb_single(ps, line) ==
    IF ~IsFloat(line, 1) \/ ~IsFloat(line, 2)
    THEN [ps EXCEPT !.err = "QPrmError"]
    ELSE LET a_type == ReplaceStar(line[1].s)
         IN  IF a_type \notin DOMAIN ps.masses THEN [ps EXCEPT !.err = "QPrmError"]
             ELSE [ps EXCEPT !.atoms = Append(@, PrmAtom(a_type, <<ps.masses[a_type]>>,
                                                         <<>>, <<>>, <<Float(line, 1)>>,
                                                         <<Float(line, 2)>>, ""))]

\* a non-bonded line of a full parameter set: one atom type for every
\* type of the alias row of the line's type, with the mass of the line's type
read_amber_parm_nonb(ps, line) ==
    IF ~IsFloat(line, 1) \/ ~IsFloat(line, 2)
    THEN Fail(ps, "QPrmError")
    ELSE LET a_type == ReplaceStar(line[1].s)
             same_a_types == IF a_type \in DOMAIN ps.same_types
                             THEN ps.same_types[a_type] ELSE <<a_type>>
         IN  IF a_type \notin DOMAIN ps.masses THEN Fail(ps, "QPrmError")
             ELSE [ps EXCEPT !.atoms = @ \o AtomsOf(same_a_types, ps.masses[a_type],
                                                     Float(line, 1), Float(line, 2))]

\* a mutant of the non-bonded line of a patch set that makes an atom type
\* without a mass when the type has none
read_amber_frcmod_nonb_nomass(ps, line) ==
    IF ~IsFloat(line, 1) \/ ~IsFloat(line, 2)
    THEN [ps EXCEPT !.err = "QPrmError"]
    ELSE LET a_type == ReplaceStar(line[1].s)
             mass   == IF a_type \in DOMAIN ps.masses THEN <<ps.masses[a_type]>> ELSE <<>>
         IN  [ps EXCEPT !.atoms = Append(@, PrmAtom(a_type, mass, <<>>, <<>>,
                                                    <<Float(line, 1)>>,
                                                    <<Float(line, 2)>>, ""))]

\* a non-bonded line of a patch set
read_amber_frcmod_nonb(ps, line) ==
    IF ~IsFloat(line, 1) \/ ~IsFloat(line, 2)
    THEN Fail(ps, "QPrmError")
    ELSE LET a_type == ReplaceStar(line[1].s)
         IN  IF a_type \notin DOMAIN ps.masses THEN Fail(ps, "QPrmError")
             ELSE [ps EXCEPT !.atoms = @ \o AtomsOf(<<a_type>>, ps.masses[a_type],
                                                     Float(line, 1), Float(line, 2))]

\* the line parsers by block
AmberLine(ps, blk, line, ignore, frcmod) ==
    CASE blk = "masses"    -> IF frcmod THEN read_amber_frcmod_mass(ps, line, ignore)
                              ELSE read_amber_parm_mass(ps, line, ignore)
      [] blk = "bonds"     -> read_amber_bond(ps, line)
      [] blk = "angles"    -> read_amber_angle(ps, line)
      [] blk = "torsions"  -> read_amber_torsion(ps, line)
      [] blk = "impropers" -> read_amber_improper(ps, line)
      [] blk = "same"      -> read_amber_same(ps, line)
      [] blk = "nonb"      -> IF frcmod THEN read_amber_frcmod_nonb(ps, line)
                              ELSE read_amber_parm_nonb(ps, line)

\* the loop over the lines of one block: the first exception ends it
RECURSIVE AmberBlock(_, _, _, _, _)
AmberBlock(ps, blk, lines, ignore, frcmod) ==
    IF lines = <<>> \/ ps.err # "" THEN ps
    ELSE AmberBlock(AmberLine(ps, blk, Head(lines), ignore, frcmod), blk,
                    Tail(lines), ignore, frcmod)

\* the blocks in the order of the file
RECURSIVE AmberBlocks(_, _, _, _, _)
AmberBlocks(ps, blks, file, ignore, frcmod) ==
    IF blks = <<>> \/ ps.err # "" THEN ps
    ELSE AmberBlocks(AmberBlock(ps, Head(blks), file[Head(blks)], ignore, frcmod),
                     Tail(blks), file, ignore, frcmod)

\* the end of a legacy reader: masses are written while parsing, the
\* records are merged after the last line
AmberFinish(st, ps, ignore) ==
    LET st1 == [st EXCEPT !.amber_masses = ps.masses]
    IN  Handed(IF ps.err # ""
               THEN [err |-> ps.err, st |-> st1, dups |-> <<>>, log |-> ps.log]
               ELSE MergeFrom(st1, MergeOrder(ps), ignore, <<>>, ps.log), ps)

\* the parse of a full parameter set: masses, bonds, angles, torsions,
\* impropers, alias rows, non-bonded lines
parse_amber_parm(masses, file, ignore) ==
    AmberBlocks(AmberInit(masses),
                <<"masses", "bonds", "angles", "torsions", "impropers", "same", "nonb">>,
                file, ignore, FALSE)

\* the parse of a patch set: the same blocks without the alias rows
parse_amber_frcmod(masses, file, ignore) ==
    AmberBlocks(AmberInit(masses),
                <<"masses", "bonds", "angles", "torsions", "impropers", "nonb">>,
                file, ignore, TRUE)

\* QPrm.read_amber_parm
read_amber_parm(st, file, ff, ignore) ==
    IF ff # "amber" THEN WrongForceField(st)
    ELSE AmberFinish(st, parse_amber_parm(st.amber_masses, file, ignore), ignore)

\* QPrm.read_amber_frcmod
read_amber_frcmod(st, file, ff, ignore) ==
    IF ff # "amber" THEN WrongForceField(st)
    ELSE AmberFinish(st, parse_amber_frcmod(st.amber_masses, file, ignore), ignore)

\* ------------------------------------------------------------------------
\* read_ffld: the token-based export format
\*
\* A file is a sequence of lines: [kind |-> "skip"] (blank or dashes),
\* [kind |-> "header", section |-> s] (a line that starts with the text of
\* a section header) and [kind |-> "data", toks |-> t].  The structure is
\* the list qstruct.atoms, each atom [name |-> n, residue |-> r].
\* ------------------------------------------------------------------------

\* ATOM_MASSES, keyed by the element in upper case
ATOM_MASSES ==
    (<<72>> :> 100790) @@ (<<67>> :> 1201100) @@ (<<78>> :> 1400700) @@
    (<<79>> :> 1599900) @@ (<<70>> :> 1898800) @@ (<<80>> :> 3097400) @@
    (<<83>> :> 3206500) @@ (<<67, 76>> :> 3545300) @@ (<<66, 82>> :> 7990400) @@
    (<<73>> :> 12690000) @@ (<<68, 85>> :> 0)

IsAlpha(c) == (c >= 65 /\ c <= 90) \/ (c >= 97 /\ c <= 122)

\* the letters of a string
RECURSIVE Letters(_)
Letters(s) ==
    IF s = <<>> THEN <<>>
    ELSE (IF IsAlpha(Head(s)) THEN <<Head(s)>> ELSE <<>>) \o Letters(Tail(s))

\* str.upper() and str.lower()
Upper(s) == [i \in 1..Len(s) |-> IF s[i] >= 97 /\ s[i] <= 122 THEN s[i] - 32 ELSE s[i]]

Lower(s) == [i \in 1..Len(s) |-> IF s[i] >= 65 /\ s[i] <= 90 THEN s[i] + 32 ELSE s[i]]

\* the integer square root, by bisection on lo..hi
RECURSIVE ISqrtIn(_, _, _)
ISqrtIn(n, lo, hi) ==
    IF lo >= hi THEN lo
    ELSE LET mid == (lo + hi + 1) \div 2
         IN  IF mid * mid <= n THEN ISqrtIn(n, mid, hi) ELSE ISqrtIn(n, lo, mid - 1)

RECURSIVE Pow(_, _)
Pow(b, e) == IF e = 0 THEN 1 ELSE b * Pow(b, e - 1)

\* (4 * epsilon * sigma**p)**0.5 for p = 12 and p = 6, computed as
\* 2 * sigma**(p/2) * sqrt(epsilon); the files of the model give sigma a
\* whole number of Angstrom, and epsilon below 0.2, to stay within 32 bits
LJ(sigma, epsilon, p) ==
    2 * Pow(sigma \div 100000, p \div 2) * ISqrtIn(epsilon * 100000, 0, 46340)

FfldInit ==
    [err |-> "", section |-> "", lookup_aname |-> EmptyDict, atoms |-> <<>>,
     bonds |-> <<>>, angles |-> <<>>, torsions |-> <<>>, impropers |-> <<>>,
     log |-> <<>>]

\* all names of the list are keys of the lookup table
AllKnown(ps, anames) == \A i \in 1..Len(anames) : anames[i] \in DOMAIN ps.lookup_aname

AtypesOf(ps, anames) == [i \in 1..Len(anames) |-> ps.lookup_aname[anames[i]]]

\* a line of the atom section: the atom of the structure is the one whose
\* index is the number of names in the lookup table so far
read_ffld_atom(ps, lf, qstruct, ignore) ==
    IF ~(Len(lf) >= 4 /\ IsFloat(lf, 4) /\ IsFloat(lf, 5) /\ IsFloat(lf, 6))
    THEN Fail(ps, "QPrmError")
    ELSE LET name    == lf[1].s
             vdw     == lf[3].s
             sigma   == Float(lf, 5)
             epsilon == Float(lf, 6)
             element == Upper(Letters(vdw))
             mass    == IF element \in DOMAIN ATOM_MASSES
                        THEN <<ATOM_MASSES[element]>> ELSE <<>>
             aindex_struct == Cardinality(DOMAIN ps.lookup_aname)
         IN  IF aindex_struct >= Len(qstruct) THEN Fail(ps, "IndexError")
             ELSE LET atom_struct == qstruct[aindex_struct + 1]
                      mismatch == Lower(<<name[1]>>) # Lower(<<atom_struct.name[1]>>)
                      atype == Lower(atom_struct.residue) \o <<46>> \o atom_struct.name
                      atom  == PrmAtom(atype, mass, <<LJ(sigma, epsilon, 12)>>,
                                       <<LJ(sigma, epsilon, 6)>>, <<>>, <<>>, "FFLD")
                  IN  IF mismatch /\ raise_or_log("QPrmError", ignore) # ""
                      THEN Fail(ps, "QPrmError")
                      ELSE [ps EXCEPT
                              !.log = IF mismatch
                                      THEN Append(@, [what |-> "element",
                                                      tbl |-> "atom_types",
                                                      id |-> atype])
                                      ELSE @,
                              !.atoms = Append(@, atom),
                              !.lookup_aname = DictSet(@, name, atype)]

\* a line of the bond section: the force constant is doubled
read_ffld_bond(ps, lf) ==
    IF ~(IsFloat(lf, 2) /\ IsFloat(lf, 3)) THEN Fail(ps, "QPrmError")
    ELSE IF ~AllKnown(ps, Texts(lf, 0, 2)) THEN Fail(ps, "KeyError")
    ELSE [ps EXCEPT !.bonds = Append(@, PrmBond(AtypesOf(ps, Texts(lf, 0, 2)),
                                                 Float(lf, 2) * 2, Float(lf, 3), "FFLD"))]

\* a line of the angle section: the force constant is doubled
read_ffld_angle(ps, lf) ==
    IF ~(IsFloat(lf, 3) /\ IsFloat(lf, 4)) THEN Fail(ps, "QPrmError")
    ELSE IF ~AllKnown(ps, Texts(lf, 0, 3)) THEN Fail(ps, "KeyError")
    ELSE [ps EXCEPT !.angles = Append(@, PrmAngle(AtypesOf(ps, Texts(lf, 0, 3)),
                                                   Float(lf, 3) * 2, Float(lf, 4), "FFLD"))]

\* a mutant of the terms of a torsion line that keeps the terms of zero
\* amplitude
RECURSIVE FfldTerms_all(_, _, _)
FfldTerms_all(t, fcs, k) ==
    IF k > Len(fcs) \/ k > 4 THEN t
    ELSE FfldTerms_all(PrmTorsion_add_prm(t, fcs[k] \div 2, k * 100000,
                                          IF k % 2 = 1 THEN 0 ELSE 18000000,
                                          100000).prm,
                       fcs, k + 1)

\* the terms of a torsion line: amplitude k (1..4) of non-zero magnitude
\* gives the term (amplitude/2, k, 0 or 180 degrees, 1 path)
RECURSIVE FfldTerms(_, _, _)
FfldTerms(t, fcs, k) ==
    IF k > Len(fcs) \/ k > 4 THEN t
    ELSE IF fcs[k] # 0
    THEN FfldTerms(PrmTorsion_add_prm(t, fcs[k] \div 2, k * 100000,
                                      IF k % 2 = 1 THEN 0 ELSE 18000000,
                                      100000).prm,
                   fcs, k + 1)
    ELSE FfldTerms(t, fcs, k + 1)

\* a line of the torsion section
read_ffld_torsion(ps, lf) ==
    LET nf == IF Len(lf) < 8 THEN Len(lf) ELSE 8
    IN  IF \E i \in 4..(nf - 1) : ~IsFloat(lf, i) THEN Fail(ps, "QPrmError")
        ELSE IF ~AllKnown(ps, Texts(lf, 0, 4)) THEN Fail(ps, "KeyError")
        ELSE LET fcs == [i \in 1..(IF nf > 4 THEN nf - 4 ELSE 0) |-> Float(lf, i + 3)]
                 t0  == PrmTorsion(AtypesOf(ps, Texts(lf, 0, 4)), "FFLD")
                 t1  == FfldTerms(t0, fcs, 1)
                 t2  == IF PrmTorsion_get_prms(t1) = <<>>
                        THEN PrmTorsion_add_prm(t1, 0, 100000, 0, 100000).prm
                        ELSE t1
             IN  [ps EXCEPT !.torsions = Append(@, t2)]

\* a line of the improper section: the third atom is the center
read_ffld_improper(ps, lf) ==
    IF ~IsFloat(lf, 4) THEN Fail(ps, "QPrmError")
    ELSE IF ~AllKnown(ps, Texts(lf, 0, 4)) THEN Fail(ps, "KeyError")
    ELSE LET atypes == AtypesOf(ps, Texts(lf, 0, 4))
             r == PrmImproper(atypes[3], Without(atypes, 2), Float(lf, 4) \div 2,
                              18000000, 200000, "FFLD")
         IN  IF r.err # "" THEN Fail(ps, r.err)
             ELSE [ps EXCEPT !.impropers = Append(@, r.prm)]

\* one line of the file; a data line before the first header is skipped
read_ffld_line(ps, line, qstruct, ignore) ==
    IF line.kind = "skip" THEN ps
    ELSE IF line.kind = "header" THEN [ps EXCEPT !.section = line.section]
    ELSE CASE ps.section = "ATOMS"     -> read_ffld_atom(ps, line.toks, qstruct, ignore)
           [] ps.section = "BONDS"     -> read_ffld_bond(ps, line.toks)
           [] ps.section = "ANGLES"    -> read_ffld_angle(ps, line.toks)
           [] ps.section = "TORSIONS"  -> read_ffld_torsion(ps, line.toks)
           [] ps.section = "IMPROPERS" -> read_ffld_improper(ps, line.toks)
           [] OTHER                    -> ps

RECURSIVE read_ffld_lines(_, _, _, _)
read_ffld_lines(ps, lines, qstruct, ignore) ==
    IF lines = <<>> \/ ps.err # "" THEN ps
    ELSE read_ffld_lines(read_ffld_line(ps, Head(lines), qstruct, ignore),
                         Tail(lines), qstruct, ignore)

\* a mutant of read_ffld without the test of the force field type
read_ffld_any(st, file, qstruct, ff, ignore) ==
    LET ps == read_ffld_lines(FfldInit, file, qstruct, ignore)
    IN  Handed(IF ps.err # ""
               THEN [err |-> ps.err, st |-> st, dups |-> <<>>, log |-> ps.log]
               ELSE MergeFrom(st, MergeOrder(ps), ignore, <<>>, ps.log), ps)

\* QPrm.read_ffld
read_ffld(st, file, qstruct, ff, ignore) ==
    IF ff # "oplsaa" THEN WrongForceField(st)
    ELSE LET ps == read_ffld_lines(FfldInit, file, qstruct, ignore)
         IN  Handed(IF ps.err # ""
                    THEN [err |-> ps.err, st |-> st, dups |-> <<>>, log |-> ps.log]
                    ELSE MergeFrom(st, MergeOrder(ps), ignore, <<>>, ps.log), ps)

\* ------------------------------------------------------------------------
\* get_string: the serializer
\*
\* The text is a sequence of printed lines: section headers, blank lines
\* and lines of fields.  A field is a token before tokenizing: the text of
\* a name or of an option's key or value as it is stored, or a number.
\* ------------------------------------------------------------------------

\* round(v, 4)
Round4(v) == IF v < 0 THEN -(((-v + 5) \div 10) * 10) ELSE ((v + 5) \div 10) * 10

\* v * scaling_14_vdw of oplsaa, 1/2**0.5, taken as 0.7071
Vdw14Oplsaa(v) == (v \div 10000) * 7071 + ((v % 10000) * 7071) \div 10000

\* v * scaling_14_vdw of amber, 0.5
Vdw14Amber(v) == v \div 2

\* a mutant of the sort key of a generic record: the identity alone
GenericKey_plain(prm) == prm.prm_id

\* the sort key of a generic record: one space per "?" before the identity
GenericKey(prm) == [i \in 1..Count(prm.prm_id, 63) |-> 32] \o prm.prm_id

SortKey(prm, generic) == IF generic THEN GenericKey(prm) ELSE prm.prm_id

\* sorted(set(dict.values()), key=...): the records of a table by sort key
SortedValues(d, generic) ==
    LET RECURSIVE Build(_)
        Build(S) ==
            IF S = {} THEN <<>>
            ELSE LET m == CHOOSE x \in S :
                            \A y \in S : ~StrLt(SortKey(d[y], generic), SortKey(d[x], generic))
                 IN  <<d[m]>> \o Build(S \ {m})
    IN  Build(DOMAIN d)

DataLine(fields, prm) == [kind |-> "data", toks |-> fields, comment |-> prm._comment]

\* the text of the mass of an atom: the number, or the string "<FIX>"
MassField(a) == IF a.mass = <<>> THEN W(<<60, 70, 73, 88, 62>>) ELSE N(a.mass[1])

\* the line of an atom type, by force field type
AtomLine(v, ff) ==
    IF ff = "amber"
    THEN DataLine(<<W(v.atom_type), N(v.lj_R[1]), N(0), N(v.lj_eps[1]), N(v.lj_R[1]),
                    N(Vdw14Amber(v.lj_eps[1])), MassField(v)>>, v)
    ELSE LET lj_A == Round4(v.lj_A[1])
             lj_B == Round4(v.lj_B[1])
         IN  DataLine(<<W(v.atom_type), N(lj_A), N(lj_A), N(lj_B),
                        N(Round4(Vdw14Oplsaa(lj_A))), N(Round4(Vdw14Oplsaa(lj_B))),
                        MassField(v)>>, v)

NameFields(v) == [i \in 1..Len(v.atom_types) |-> W(v.atom_types[i])]

\* a mutant that writes the length before the force constant
BondLine_swapped(v) == DataLine(NameFields(v) \o <<N(v.r0), N(v.fc)>>, v)

BondLine(v) == DataLine(NameFields(v) \o <<N(v.fc), N(v.r0)>>, v)

AngleLine(v) == DataLine(NameFields(v) \o <<N(v.fc), N(v.theta0)>>, v)

\* the lines of a torsion: one per term, in the order of get_prms
TorsionLines(v) ==
    LET prms == PrmTorsion_get_prms(v)
    IN  [i \in 1..Len(prms) |->     DataLine(NameFields(v) \o <<N(prms[i].fc), N(prms[i].multiplicity),
                                        N(prms[i].phase), N(prms[i].npaths)>>, v)]

ImproperLine(v) == DataLine(NameFields(v) \o <<N(v.fc), N(v.phi0)>>, v)

RECURSIVE Flatten(_)
Flatten(ll) == IF ll = <<>> THEN <<>> ELSE Head(ll) \o Flatten(Tail(ll))

OptionLines(opts) ==
    [i \in 1..Len(opts) |-> [kind |-> "data", toks |-> <<W(opts[i][1]), W(opts[i][2])>>, comment |-> ""]]

Section(name, lines) ==
    <<[kind |-> "section", name |-> name]>> \o lines \o <<[kind |-> "blank"]>>

\* sorted(set(l), key=lambda x: x.prm_id) of an explicit list: each record
\* once (the lists of the model hold no two records of one identity)
SortedList(l) ==
    LET RECURSIVE Build(_)
        Build(S) ==
            IF S = {} THEN <<>>
            ELSE LET m == CHOOSE x \in S : \A y \in S : ~StrLt(y.prm_id, x.prm_id)
                 IN  <<m>> \o Build(S \ {m})
    IN  Build({l[i] : i \in 1..Len(l)})

\* the arguments of get_string: <<>> for None, <<l>> for the list l
NoLists ==
    [atom_types |-> <<>>, bonds |-> <<>>, angles |-> <<>>, torsions |-> <<>>,
     impropers |-> <<>>]

\* QPrm.get_string(atom_types, bonds, angles, torsions, impropers): a class
\* without a list is taken from the store, generic torsions and impropers
\* before the concrete ones; a class with a list is that list sorted by
\* identity, and the generic tables are not read for it
get_string_lists(st, ff, lists) ==
    LET atoms == IF lists.atom_types = <<>> THEN SortedValues(st.atom_types, FALSE)
                 ELSE SortedList(lists.atom_types[1])
        bnds  == IF lists.bonds = <<>> THEN SortedValues(st.bonds, FALSE)
                 ELSE SortedList(lists.bonds[1])
        angs  == IF lists.angles = <<>> THEN SortedValues(st.angles, FALSE)
                 ELSE SortedList(lists.angles[1])
        gtors == IF lists.torsions = <<>> THEN SortedValues(st.generic_torsions, TRUE)
                 ELSE <<>>
        tors  == IF lists.torsions = <<>> THEN SortedValues(st.torsions, FALSE)
                 ELSE SortedList(lists.torsions[1])
        gimps == IF lists.impropers = <<>> THEN SortedValues(st.generic_impropers, TRUE)
                 ELSE <<>>
        imps  == IF lists.impropers = <<>> THEN SortedValues(st.impropers, FALSE)
                 ELSE SortedList(lists.impropers[1])
    IN  Section("options", OptionLines(st.options))
        \o Section("atom_types", [i \in 1..Len(atoms) |-> AtomLine(atoms[i], ff)])
        \o Section("bonds", [i \in 1..Len(bnds) |-> BondLine(bnds[i])])
        \o Section("angles", [i \in 1..Len(angs) |-> AngleLine(angs[i])])
        \o Section("torsions",
                   Flatten([i \in 1..Len(gtors) |-> TorsionLines(gtors[i])])
                   \o Flatten([i \in 1..Len(tors) |-> TorsionLines(tors[i])]))
        \o Section("impropers",
                   [i \in 1..Len(gimps) |-> ImproperLine(gimps[i])]
                   \o [i \in 1..Len(imps) |-> ImproperLine(imps[i])])

\* QPrm.get_string() without arguments
get_string(st, ff) == get_string_lists(st, ff, NoLists)

\* What read_prm sees of a printed line: the fields are joined by spaces,
\* the text is cut at the first "#", "*" or "!" (35, 42, 33) and split at
\* white space.
IsCommentChar(c) == c = 35 \/ c = 42 \/ c = 33

RECURSIVE BeforeComment(_)
BeforeComment(s) ==
    IF s = <<>> \/ IsCommentChar(Head(s)) THEN <<>>
    ELSE <<Head(s)>> \o BeforeComment(Tail(s))

HasCommentChar(s) == \E i \in 1..Len(s) : IsCommentChar(s[i])

Words(s) == LET w == Split(s) IN [i \in 1..Len(w) |-> W(w[i])]

RECURSIVE Tokenize(_)
Tokenize(fields) ==
    IF fields = <<>> THEN <<>>
    ELSE LET x == Head(fields)
         IN  IF x.f # <<>> THEN <<x>> \o Tokenize(Tail(fields))
             ELSE IF HasCommentChar(x.s) THEN Words(BeforeComment(x.s))
             ELSE Words(x.s) \o Tokenize(Tail(fields))

\* a printed line as the line read_prm parses; 91 is "["
ReadLine(pl) ==
    IF pl.kind # "data" THEN pl
    ELSE LET toks == Tokenize(pl.toks)
         IN  IF toks = <<>> THEN [kind |-> "blank"]
             ELSE IF toks[1].f = <<>> /\ Head(toks[1].s) = 91
             THEN [kind |-> "section", name |-> "?"]
             ELSE [kind |-> "data", toks |-> toks, comment |-> pl.comment]

\* the text of get_string as the file read_prm reads
ReadBack(text) == [i \in 1..Len(text) |-> ReadLine(text[i])]

\* ------------------------------------------------------------------------
\* The inputs of the model
\* ------------------------------------------------------------------------

\* the longest run of data lines in a generated native file
MaxLines == 2

\* the number of operations performed on one store
MaxOps == 2

\* atom type names: "A" "B" "C" "D" "CT" "HC"
tA == <<65>>

tB == <<66>>

tC == <<67>>

tD == <<68>>

CT == <<67, 84>>

HC == <<72, 67>>

Data(toks, comment) == [kind |-> "data", toks |-> toks, comment |-> comment]

Header(name) == [kind |-> "section", name |-> name]

\* option keys and values: "n", "t"; "Q", "R"
OptionWords ==
    [n |-> <<110>>,
     t |-> <<116>>,
     Q |-> <<81>>,
     R |-> <<82>>]

\* the data lines of the sections of a native file.
\* bonds: CT-HC 300.0 1.090 in both orders, the same with a force constant
\* that prints alike (300.0004), one that differs in the second decimal
\* (300.04), a conflicting one, a line that is too short.
\* torsions: A-B-C-D with multiplicities 1 and 2, forwards and backwards;
\* the generic torsions ?-B-C-? and ?-A-C-D.
\* impropers: center C with peripherals A, B, D in two orders, a
\* conflicting force constant, the generic impropers with center C and
\* peripherals ?, A, ? and with center A and peripherals ?, B, C, and the
\* improper with the wildcard as center and the peripherals A, B, C.
NativeLines ==
    [bonds |-> {Data(<<W(CT), W(HC), N(30000000), N(109000)>>, "c1"),
          Data(<<W(HC), W(CT), N(30000000), N(109000)>>, "c2"),
          Data(<<W(CT), W(HC), N(30000040), N(109000)>>, ""),
          Data(<<W(CT), W(HC), N(30004000), N(109000)>>, ""),
          Data(<<W(CT), W(HC), N(31000000), N(109000)>>, "c3"),
          Data(<<W(CT), W(HC), N(30000000)>>, "")},
     angles |-> {Data(<<W(HC), W(CT), W(CT), N(3500000), N(10950000)>>, ""),
          Data(<<W(CT), W(CT), W(HC), N(3500000), N(10950000)>>, "c2"),
          Data(<<W(CT), W(CT), W(HC), N(4000000), N(10950000)>>, "")},
     torsions |-> {Data(<<W(tA), W(tB), W(tC), W(tD), N(100000), N(100000), N(0), N(100000)>>, ""),
          Data(<<W(tA), W(tB), W(tC), W(tD), N(200000), N(200000), N(18000000), N(100000)>>, ""),
          Data(<<W(tD), W(tC), W(tB), W(tA), N(100000), N(100000), N(0), N(100000)>>, "")},
     generic_torsions |-> {Data(<<W(WILD), W(tB), W(tC), W(WILD), N(50000), N(300000), N(0), N(100000)>>, ""),
          Data(<<W(WILD), W(tA), W(tC), W(tD), N(50000), N(300000), N(0), N(100000)>>, "")},
     impropers |-> {Data(<<W(tA), W(tC), W(tB), W(tD), N(1000000), N(18000000)>>, ""),
          Data(<<W(tD), W(tC), W(tA), W(tB), N(1000000), N(18000000)>>, "c2"),
          Data(<<W(tA), W(tC), W(tB), W(tD), N(1100000), N(18000000)>>, ""),
          Data(<<W(WILD), W(tC), W(tA), W(WILD), N(1000000), N(18000000)>>, ""),
          Data(<<W(WILD), W(tA), W(tB), W(tC), N(1000000), N(18000000)>>, ""),
          Data(<<W(tA), W(WILD), W(tB), W(tC), N(1000000), N(18000000)>>, "")},
     atom_types |-> {Data(<<W(CT), N(190800), N(0), N(10940), N(190800), N(5470), N(1201000)>>, ""),
          Data(<<W(CT), N(190800), N(0), N(10943), N(190800), N(5470), N(1201000)>>, "c2"),
          Data(<<W(CT), N(190800), N(0), N(12000), N(190800), N(6000), N(1201000)>>, "")},
     options |-> {Data(<<W(OptionWords.n), W(OptionWords.Q)>>, ""),
          Data(<<W(OptionWords.n), W(OptionWords.R)>>, ""),
          Data(<<W(OptionWords.t), W(OptionWords.Q)>>, ""),
          Data(<<W(OptionWords.n)>>, "")}]

\* the sequences of 1..n elements of S
RECURSIVE SeqsUpTo(_, _)
SeqsUpTo(S, n) ==
    IF n = 0 THEN {<<>>}
    ELSE LET shorter == SeqsUpTo(S, n - 1)
         IN  shorter \cup {Append(q, x) : q \in shorter, x \in S}

\* the files with one section and up to MaxLines data lines
OneSection(name, pool) == {<<Header(name)>> \o body : body \in SeqsUpTo(pool, MaxLines) \ {<<>>}}

\* files with a defect of structure: a section that is not known, with and
\* without a line in it, before and after a section of bonds, and a data
\* line before the first header; and files with two and three sections,
\* two of them with a bond and an atom type that conflict with those of
\* the other
OtherNativeFiles ==
    LET b1 == Data(<<W(CT), W(HC), N(30000000), N(109000)>>, "c1")
        b4 == Data(<<W(CT), W(HC), N(31000000), N(109000)>>, "c3")
        a1 == Data(<<W(HC), W(CT), W(CT), N(3500000), N(10950000)>>, "")
        o1 == Data(<<W(OptionWords.t), W(OptionWords.R)>>, "")
        t1 == Data(<<W(CT), N(190800), N(0), N(10940), N(190800), N(5470), N(1201000)>>, "")
        t3 == Data(<<W(CT), N(190800), N(0), N(12000), N(190800), N(6000), N(1201000)>>, "")
    IN  {<<Header("molecules")>>,
         <<Header("molecules"), b1>>,
         <<b1>>,
         <<Header("options"), o1, Header("angles"), a1, Header("bonds"), b4>>,
         <<Header("bonds"), b1, Header("molecules"), b1>>,
         <<Header("molecules"), Header("bonds"), b1>>,
         <<Header("angles"), a1, Header("bonds"), b4>>,
         <<Header("bonds"), b1, Header("atom_types"), t1>>,
         <<Header("atom_types"), t3, Header("bonds"), b4>>}

NativeFiles ==
    OneSection("bonds", NativeLines.bonds) \cup OneSection("angles", NativeLines.angles)
    \cup OneSection("torsions", NativeLines.torsions \cup NativeLines.generic_torsions)
    \cup OneSection("impropers", NativeLines.impropers)
    \cup OneSection("atom_types", NativeLines.atom_types)
    \cup OneSection("options", NativeLines.options)
    \cup OtherNativeFiles

\* columns of the legacy format: "X ", "C*"; the names "CA" and
\* "Cstar"
AmberColumns ==
    [X |-> <<88, 32>>,
     Cx |-> <<67, 42>>,
     CA |-> <<67, 65>>,
     Cstar |-> <<67, 115, 116, 97, 114>>]

AmberFile(m, b, a, t, i, sm, n) ==
    [masses |-> m, bonds |-> b, angles |-> a, torsions |-> t, impropers |-> i,
     same |-> sm, nonb |-> n]

\* the lines of the blocks of a legacy file.
\* bonds: CT-HC 150.0 1.090, stored with force constant 300.0; CT-HC 155.0
\* 1.090, stored with 310.0; a line whose force constant does not parse.
\* angles: HC-CT-CT 17.5 109.5.
\* torsions: X -B -C -X, a generic torsion of one term; A-B-C-D with
\* multiplicity -2 (continued) and D-C-B-A with 1; A-B-C-D with 2, not
\* continued.
\* impropers: A-D-C-B with the center C in the third column; X-X-C-A; the
\* first with multiplicity -2 and another force constant, and with 3.
AmberLines ==
    [masses |-> [CT |-> <<W(CT), N(1201000)>>,
              CT13 |-> <<W(CT), N(1300000)>>,
              HC |-> <<W(HC), N(100800)>>,
              Cstar |-> <<W(AmberColumns.Cx), N(1201000)>>,
              CA13 |-> <<W(AmberColumns.CA), N(1300000)>>],
     bonds |-> [CTHC |-> [cols |-> <<CT, HC>>, fc |-> <<15000000>>, r0 |-> <<109000>>],
             CTHC155 |-> [cols |-> <<CT, HC>>, fc |-> <<15500000>>, r0 |-> <<109000>>],
             Bad |-> [cols |-> <<CT, HC>>, fc |-> <<>>, r0 |-> <<109000>>]],
     angles |-> [HCH |-> [cols |-> <<HC, CT, CT>>, fc |-> <<1750000>>, t0 |-> <<10950000>>]],
     torsions |-> [Gen |-> [cols |-> <<AmberColumns.X, tB, tC, AmberColumns.X>>, npaths |-> <<400000>>, fc |-> <<140000>>, phase |-> <<0>>, mult |-> <<300000>>],
                Neg2 |-> [cols |-> <<tA, tB, tC, tD>>, npaths |-> <<100000>>, fc |-> <<200000>>, phase |-> <<18000000>>, mult |-> <<-200000>>],
                Pos1 |-> [cols |-> <<tD, tC, tB, tA>>, npaths |-> <<100000>>, fc |-> <<100000>>, phase |-> <<0>>, mult |-> <<100000>>],
                Pos2 |-> [cols |-> <<tA, tB, tC, tD>>, npaths |-> <<100000>>, fc |-> <<200000>>, phase |-> <<18000000>>, mult |-> <<200000>>]],
     impropers |-> [ABD |-> [cols |-> <<tA, tD, tC, tB>>, fc |-> <<1000000>>, phi0 |-> <<18000000>>, mult |-> <<200000>>],
                 Gen |-> [cols |-> <<AmberColumns.X, AmberColumns.X, tC, tA>>, fc |-> <<1000000>>, phi0 |-> <<18000000>>, mult |-> <<200000>>],
                 Neg |-> [cols |-> <<tA, tD, tC, tB>>, fc |-> <<1100000>>, phi0 |-> <<18000000>>, mult |-> <<-200000>>],
                 Mult3 |-> [cols |-> <<tA, tD, tC, tB>>, fc |-> <<1000000>>, phi0 |-> <<18000000>>, mult |-> <<300000>>]],
     nonb |-> [CT |-> <<W(CT), N(190800), N(10940)>>,
            CT2 |-> <<W(CT), N(190800), N(12000)>>,
            HC |-> <<W(HC), N(148700), N(1570)>>,
            Cstar |-> <<W(AmberColumns.Cx), N(190800), N(8600)>>]]

\* full legacy parameter sets
AmberParmFiles ==
    {AmberFile(<<AmberLines.masses.CT, AmberLines.masses.HC>>, <<AmberLines.bonds.CTHC>>, <<AmberLines.angles.HCH>>, <<AmberLines.torsions.Gen>>, <<AmberLines.impropers.ABD>>, <<>>, <<AmberLines.nonb.CT, AmberLines.nonb.HC>>),
     AmberFile(<<AmberLines.masses.CT>>, <<>>, <<>>, <<AmberLines.torsions.Neg2, AmberLines.torsions.Pos1>>, <<AmberLines.impropers.Gen>>, <<>>, <<AmberLines.nonb.CT>>),
     AmberFile(<<>>, <<>>, <<>>, <<AmberLines.torsions.Pos2, AmberLines.torsions.Pos1>>, <<AmberLines.impropers.Neg>>, <<>>, <<>>),
     AmberFile(<<AmberLines.masses.CT13>>, <<AmberLines.bonds.CTHC155>>, <<>>, <<>>, <<>>, <<>>, <<>>),
     AmberFile(<<AmberLines.masses.HC>>, <<AmberLines.bonds.Bad>>, <<>>, <<>>, <<>>, <<>>, <<>>),
     AmberFile(<<AmberLines.masses.Cstar>>, <<>>, <<>>, <<>>, <<>>, <<<<W(AmberColumns.Cx), W(AmberColumns.CA)>>>>, <<AmberLines.nonb.Cstar>>),
     AmberFile(<<AmberLines.masses.Cstar, AmberLines.masses.CA13, AmberLines.masses.HC>>, <<>>, <<>>, <<>>, <<>>, <<<<W(AmberColumns.Cx), W(AmberColumns.CA)>>>>, <<AmberLines.nonb.Cstar, AmberLines.nonb.HC>>),
     AmberFile(<<AmberLines.masses.HC>>, <<AmberLines.bonds.CTHC>>, <<>>, <<>>, <<>>, <<>>, <<AmberLines.nonb.CT>>),
     AmberFile(<<>>, <<AmberLines.bonds.CTHC>>, <<>>, <<>>, <<AmberLines.impropers.Mult3>>, <<>>, <<>>)}

\* patch sets (no alias rows)
AmberFrcmodFiles ==
    {AmberFile(<<AmberLines.masses.CT>>, <<AmberLines.bonds.CTHC155>>, <<>>, <<>>, <<>>, <<>>, <<AmberLines.nonb.CT2>>),
     AmberFile(<<AmberLines.masses.CT>>, <<AmberLines.bonds.CTHC>>, <<AmberLines.angles.HCH>>, <<AmberLines.torsions.Gen>>, <<AmberLines.impropers.ABD>>, <<>>, <<AmberLines.nonb.CT>>),
     AmberFile(<<AmberLines.masses.CT13>>, <<>>, <<>>, <<>>, <<>>, <<>>, <<>>),
     AmberFile(<<AmberLines.masses.HC>>, <<>>, <<>>, <<AmberLines.torsions.Neg2, AmberLines.torsions.Pos1>>, <<AmberLines.impropers.Neg>>, <<>>, <<AmberLines.nonb.CT>>),
     AmberFile(<<>>, <<AmberLines.bonds.CTHC155>>, <<>>, <<AmberLines.torsions.Pos2, AmberLines.torsions.Pos1>>, <<>>, <<>>, <<>>)}

\* the export format: atoms C1 and H2 of residue LIG ("C1", "H2", "LIG")
FfldNames ==
    [C1 |-> <<67, 49>>,
     H2 |-> <<72, 50>>,
     LIG |-> <<76, 73, 71>>]

Structures == {<<[name |-> FfldNames.C1, residue |-> FfldNames.LIG], [name |-> FfldNames.H2, residue |-> FfldNames.LIG]>>}

FfldHeader(sec) == [kind |-> "header", section |-> sec]

FfldData(toks) == [kind |-> "data", toks |-> toks]

\* the lines of the sections of an export file.
\* atoms: name, type, vdw, symbol, charge, sigma, epsilon; H2 with another
\* epsilon; O2, whose first letter differs from the structure's; C1 with a
\* vdw type of no known element ("X1").
\* bonds: C1-H2 340.0 1.09; a bond to an atom that is not in the file.
\* torsions: amplitudes 0, 0, 0.562, 0 and 0, 0, 0, 0.
FfldLines ==
    [atoms |-> [C1 |-> FfldData(<<W(FfldNames.C1), W(<<49>>), W(FfldNames.C1), W(CT), N(-1750), N(100000), N(16000)>>),
             H2 |-> FfldData(<<W(FfldNames.H2), W(<<50>>), W(<<72, 49>>), W(HC), N(6000), N(100000), N(4000)>>),
             H2eps |-> FfldData(<<W(FfldNames.H2), W(<<50>>), W(<<72, 49>>), W(HC), N(6000), N(100000), N(9000)>>),
             O2 |-> FfldData(<<W(<<79, 50>>), W(<<50>>), W(<<79, 49>>), W(HC), N(6000), N(100000), N(4000)>>),
             C1fix |-> FfldData(<<W(FfldNames.C1), W(<<49>>), W(<<88, 49>>), W(CT), N(-1750), N(100000), N(16000)>>)],
     bonds |-> [CH |-> FfldData(<<W(FfldNames.C1), W(FfldNames.H2), N(34000000), N(109000)>>),
             H9 |-> FfldData(<<W(FfldNames.C1), W(<<72, 57>>), N(34000000), N(109000)>>)],
     angle |-> FfldData(<<W(FfldNames.H2), W(FfldNames.C1), W(FfldNames.H2), N(3300000), N(10780000)>>),
     torsions |-> [T0 |-> FfldData(<<W(FfldNames.C1), W(FfldNames.C1), W(FfldNames.C1), W(FfldNames.H2), N(0), N(0), N(0), N(0)>>),
                T |-> FfldData(<<W(FfldNames.H2), W(FfldNames.C1), W(FfldNames.C1), W(FfldNames.H2), N(0), N(0), N(56200), N(0)>>)],
     improper |-> FfldData(<<W(FfldNames.H2), W(FfldNames.H2), W(FfldNames.C1), W(FfldNames.H2), N(220000)>>)]

FfldFiles ==
    {<<FfldHeader("ATOMS"), FfldLines.atoms.C1, FfldLines.atoms.H2, FfldHeader("BONDS"), FfldLines.bonds.CH,
       FfldHeader("ANGLES"), FfldLines.angle, FfldHeader("TORSIONS"), FfldLines.torsions.T, FfldLines.torsions.T0,
       FfldHeader("IMPROPERS"), FfldLines.improper>>,
     <<FfldHeader("ATOMS"), FfldLines.atoms.C1, FfldLines.atoms.H2eps, [kind |-> "skip"], FfldHeader("BONDS"), FfldLines.bonds.CH>>,
     <<FfldHeader("ATOMS"), FfldLines.atoms.C1, FfldLines.atoms.O2>>,
     <<FfldHeader("ATOMS"), FfldLines.atoms.C1fix>>,
     <<FfldHeader("ATOMS"), FfldLines.atoms.C1, FfldHeader("BONDS"), FfldLines.bonds.H9>>,
     <<FfldHeader("ATOMS"), FfldLines.atoms.C1, FfldLines.atoms.H2, FfldLines.atoms.O2>>,
     <<FfldLines.bonds.CH, FfldHeader("ATOMS"), FfldLines.atoms.C1, FfldData(<<W(FfldNames.H2)>>)>>}

\* the reads of the export format: every file with the structure of C1 and
\* H2, and a file whose atom section names C1 twice, before H3, with the
\* structure of the atoms C1, C2 and H3 ("C2", "H3")
FfldInputs ==
    (FfldFiles \X Structures)
    \cup {<<<<FfldHeader("ATOMS"), FfldLines.atoms.C1, FfldLines.atoms.C1,
             FfldData(<<W(<<72, 51>>), W(<<51>>), W(<<72, 49>>), W(HC), N(6000), N(100000), N(4000)>>)>>,
           <<[name |-> FfldNames.C1, residue |-> FfldNames.LIG],
             [name |-> <<67, 50>>, residue |-> FfldNames.LIG],
             [name |-> <<72, 51>>, residue |-> FfldNames.LIG]>>>>}

\* what the host writes into the options: single words, a value of two
\* words, a value with a comment ("a !c")
HostOptions ==
    {<<OptionWords.n, OptionWords.Q>>, <<OptionWords.n, <<81, 32, 65>>>>, <<OptionWords.t, <<97, 32, 33, 99>>>>}

\* ------------------------------------------------------------------------
\* The state machine
\* ------------------------------------------------------------------------

\* result: the operation performed last, its input, the exception it raised
\* ("" for none), the list it returned and what it logged
NoResult ==
    [op |-> "init", input |-> <<>>, err |-> "", dups |-> <<>>, log |-> <<>>,
     parsed |-> FALSE, prms |-> <<>>]

\* the iteration orders of the dict {"atoms": [], "bonds": [], "angles": [],
\* "torsions": [], "impropers": []}: the order of insertion, where dicts
\* keep it, and the order of the hash table of CPython 2.7
ClassOrders ==
    {<<"atoms", "bonds", "angles", "torsions", "impropers">>,
     <<"torsions", "impropers", "bonds", "angles", "atoms">>}

Init ==
    /\ ignore_errors \in BOOLEAN
    /\ ff_type \in {"oplsaa", "amber"}
    /\ options = <<>>
    /\ amber_masses = EmptyDict
    /\ atom_types = EmptyDict
    /\ bonds = EmptyDict
    /\ angles = EmptyDict
    /\ generic_torsions = EmptyDict
    /\ torsions = EmptyDict
    /\ generic_impropers = EmptyDict
    /\ impropers = EmptyDict
    /\ result = NoResult
    /\ nops = 0
    /\ probe = <<>>
    /\ class_order \in ClassOrders

\* the effect of a read: the store it leaves and what it returned or raised
Finish(op, input, r) ==
    /\ SetStore(r.st)
    /\ result' = [op |-> op, input |-> input, err |-> r.err,
                  dups |-> IF r.err = "" THEN r.dups ELSE <<>>, log |-> r.log,
                  parsed |-> r.parsed, prms |-> r.prms]
    /\ nops' = nops + 1
    /\ UNCHANGED <<ignore_errors, ff_type, probe, class_order>>

ReadPrm ==
    /\ nops < MaxOps
    /\ \E f \in NativeFiles : Finish("read_prm", f, read_prm(Store, f, ff_type, ignore_errors))

\* the host application writes an option
SetOption ==
    /\ nops < MaxOps
    /\ \E kv \in HostOptions :
          /\ options' = OdSet(options, kv[1], kv[2])
          /\ result' = [op |-> "set_option", input |-> kv, err |-> "",
                        dups |-> <<>>, log |-> <<>>,
                        parsed |-> FALSE, prms |-> <<>>]
    /\ nops' = nops + 1
    /\ UNCHANGED <<ignore_errors, ff_type, amber_masses, tables, probe, class_order>>

ReadAmberParm ==
    /\ nops < MaxOps
    /\ \E f \in AmberParmFiles :
          Finish("read_amber_parm", f, read_amber_parm(Store, f, ff_type, ignore_errors))

ReadAmberFrcmod ==
    /\ nops < MaxOps
    /\ \E f \in AmberFrcmodFiles :
          Finish("read_amber_frcmod", f, read_amber_frcmod(Store, f, ff_type, ignore_errors))

ReadFfld ==
    /\ nops < MaxOps
    /\ \E fq \in FfldInputs :
          Finish("read_ffld", fq, read_ffld(Store, fq[1], fq[2], ff_type, ignore_errors))

\* the names another store is constructed with: "oplsaa", "OPLSAA",
\* "amber", "Amber", "gaff", "AMBER14"
ForceFieldNames ==
    {<<111, 112, 108, 115, 97, 97>>, <<79, 80, 76, 83, 65, 65>>, <<97, 109, 98, 101, 114>>,
     <<65, 109, 98, 101, 114>>, <<103, 97, 102, 102>>, <<65, 77, 66, 69, 82, 49, 52>>}

\* the host constructs another store; this one is not touched
NewQPrm ==
    /\ nops < MaxOps
    /\ \E name \in ForceFieldNames, ignore \in BOOLEAN :
          LET r == QPrm_init(name, ignore)
          IN  result' = [op |-> "QPrm", input |-> name, err |-> r.err,
                         dups |-> <<>>, log |-> <<>>, parsed |-> FALSE, prms |-> <<>>,
                         created |-> [ff_type |-> r.ff_type, st |-> r.st]]
    /\ nops' = nops + 1
    /\ UNCHANGED <<ignore_errors, ff_type, options, amber_masses, tables, probe,
                   class_order>>

\* the longest explicit list passed to get_string
MaxList == 2

\* the records of the store by the argument of get_string they go to
Records(st) ==
    LET vals(d) == {d[k] : k \in DOMAIN d}
    IN  [atom_types |-> vals(st.atom_types), bonds |-> vals(st.bonds),
         angles |-> vals(st.angles),
         torsions |-> vals(st.generic_torsions) \cup vals(st.torsions),
         impropers |-> vals(st.generic_impropers) \cup vals(st.impropers)]

\* the host serializes the store, with a list of records of the store for
\* one class, with an empty list for every class, or without lists
GetString ==
    /\ nops < MaxOps
    /\ \E lists \in {NoLists, [c \in DOMAIN NoLists |-> <<<<>>>>]}
                   \cup UNION {{[NoLists EXCEPT ![c] = <<l>>] :
                                   l \in SeqsUpTo(Records(Store)[c], MaxList)} :
                                c \in DOMAIN NoLists} :
          result' = [op |-> "get_string", input |-> lists, err |-> "",
                     dups |-> <<>>, log |-> <<>>, parsed |-> FALSE, prms |-> <<>>,
                     text |-> get_string_lists(Store, ff_type, lists)]
    /\ nops' = nops + 1
    /\ UNCHANGED <<ignore_errors, ff_type, options, amber_masses, tables, probe,
                   class_order>>

Next ==
    \/ ReadPrm \/ ReadAmberParm \/ ReadAmberFrcmod \/ ReadFfld
    \/ SetOption \/ NewQPrm \/ GetString

Spec == Init /\ [][Next]_vars

\* ------------------------------------------------------------------------
\* The identity functions alone: every list of 2, 3 or 4 names, and every
\* center with three peripherals, goes through get_id once
\* ------------------------------------------------------------------------

\* the longest name of the identity inputs, in characters
MaxNameLen == 2

\* the names over "A" and "B" of up to MaxNameLen characters
IdNames == SeqsUpTo({65, 66}, MaxNameLen) \ {<<>>}

SeqsOfLen(S, n) == {q \in SeqsUpTo(S, n) : Len(q) = n}

InitId ==
    /\ ignore_errors = FALSE
    /\ ff_type = "amber"
    /\ options = <<>>
    /\ amber_masses = EmptyDict
    /\ atom_types = EmptyDict
    /\ bonds = EmptyDict
    /\ angles = EmptyDict
    /\ generic_torsions = EmptyDict
    /\ torsions = EmptyDict
    /\ generic_impropers = EmptyDict
    /\ impropers = EmptyDict
    /\ result = NoResult
    /\ nops = 0
    /\ class_order = <<"atoms", "bonds", "angles", "torsions", "impropers">>
    /\ \/ \E n \in 2..4 : \E s \in SeqsOfLen(IdNames, n) :
            probe = [op |-> "in", center |-> <<>>, atom_types |-> s, out |-> <<>>]
       \/ \E c \in IdNames : \E s \in SeqsOfLen({tA, tB, <<66, 65>>, WILD}, 3) :
            probe = [op |-> "in", center |-> c, atom_types |-> s, out |-> <<>>]

KeepStore ==
    UNCHANGED <<ignore_errors, ff_type, options, amber_masses, tables, result, nops,
                class_order>>

BondGetId ==
    /\ probe.op = "in" /\ probe.center = <<>> /\ Len(probe.atom_types) = 2
    /\ probe' = [probe EXCEPT !.op = "bond", !.out = PrmBond_get_id(probe.atom_types)]
    /\ KeepStore

AngleGetId ==
    /\ probe.op = "in" /\ probe.center = <<>> /\ Len(probe.atom_types) = 3
    /\ probe' = [probe EXCEPT !.op = "angle", !.out = PrmAngle_get_id(probe.atom_types)]
    /\ KeepStore

TorsionGetId ==
    /\ probe.op = "in" /\ probe.center = <<>> /\ Len(probe.atom_types) = 4
    /\ probe' = [probe EXCEPT !.op = "torsion", !.out = PrmTorsion_get_id(probe.atom_types)]
    /\ KeepStore

\* three wildcards raise QPrmError: out stays empty
ImproperGetId ==
    /\ probe.op = "in" /\ probe.center # <<>>
    /\ LET g == PrmImproper_get_id(probe.center, probe.atom_types)
       IN  probe' = [probe EXCEPT !.op = IF g.err = "" THEN "improper" ELSE "improper_error",
                                  !.out = g.id]
    /\ KeepStore

\* the multiplicities an improper is constructed with: 0, 1, 2, -2, 3, -3
Multiplicities == {0, 100000, 200000, -200000, 300000, -300000}

\* _PrmImproper(center, peripherals, 10.0, 180.0, multiplicity): out is the
\* record, or stays empty when the constructor raises
NewImproper ==
    /\ probe.op = "in" /\ probe.center # <<>>
    /\ \E m \in Multiplicities :
          LET r == PrmImproper(probe.center, probe.atom_types, 1000000, 18000000, m, "")
          IN  probe' = [op |-> "new_improper", center |-> probe.center,
                        atom_types |-> probe.atom_types, out |-> r.prm,
                        multiplicity |-> m, err |-> r.err]
    /\ KeepStore

NextId == BondGetId \/ AngleGetId \/ TorsionGetId \/ ImproperGetId \/ NewImproper

SpecId == InitId /\ [][NextId]_vars

\* ------------------------------------------------------------------------
\* Properties of the identity functions
\* ------------------------------------------------------------------------

ProbeGetId(x) ==
    CASE probe.op = "bond"    -> PrmBond_get_id(x)
      [] probe.op = "angle"   -> PrmAngle_get_id(x)
      [] probe.op = "torsion" -> PrmTorsion_get_id(x)

\* C7: the identity of a list of 2, 3 or 4 atom type names equals the
\* identity of the reversed list; it is one of the two orderings joined by
\* single spaces, and neither joined ordering is smaller as a string; the
\* identity of the tokens of an identity is that identity again.
C7_ReversalInvariantIdentity ==
    probe.op \in {"bond", "angle", "torsion"} =>
        LET s   == probe.atom_types
            id  == probe.out
            fwd == Join(s)
            rev == Join(Reversed(s))
        IN  /\ id = ProbeGetId(Reversed(s))
            /\ id \in {fwd, rev}
            /\ ~StrLt(fwd, id) /\ ~StrLt(rev, id)
            /\ Len(Split(id)) = Len(s)
            /\ ProbeGetId(Split(id)) = id

\* an angle whose identity is the reversed ordering, with a name that is
\* a prefix of another one in it
C7_Witness ==
    /\ probe.op = "angle"
    /\ probe.out # Join(probe.atom_types)
    /\ probe.atom_types[1] = <<66, 65>>
    /\ probe.atom_types[3] = <<66>>

\* the peripherals of p in the order given by the permutation f of 1..3
Permuted(p, f) == [i \in 1..3 |-> p[f[i]]]

\* the number of elements of l equal to x
Occurrences(l, x) == Cardinality({i \in 1..Len(l) : l[i] = x})

\* C8: for every center and three peripherals, at least one of them
\* concrete, the improper identity is the same for all six orders of the
\* peripherals; it has four tokens, the center second; the concrete
\* peripherals follow in sorted order; one wildcard is the first token,
\* two wildcards are the first and the last token.
C8_ImproperIdentity ==
    probe.op = "improper" =>
        LET c    == probe.center
            s    == probe.atom_types
            id   == probe.out
            toks == Split(id)
            per  == Without(toks, 1)
            conc == NotWild(per)
            nw   == Occurrences(s, WILD)
        IN  /\ \A f \in Permutations(1..3) :
                  PrmImproper_get_id(c, Permuted(s, f)) = [err |-> "", id |-> id]
            /\ Len(toks) = 4
            /\ toks[2] = c
            /\ \A i, j \in 1..Len(conc) : i < j => ~StrLt(conc[j], conc[i])
            /\ \A x \in IdNames : Occurrences(conc, x) = Occurrences(s, x)
            /\ Occurrences(per, WILD) = nw
            /\ nw = 0 => per = conc
            /\ nw = 1 => toks[1] = WILD /\ <<toks[3], toks[4]>> = conc
            /\ nw = 2 => toks[1] = WILD /\ toks[4] = WILD /\ <<toks[3]>> = conc

\* peripherals "BA", "?", "A" given out of order
C8_Witness ==
    /\ probe.op = "improper"
    /\ probe.atom_types = <<<<66, 65>>, WILD, tA>>
    /\ Split(probe.out) = <<WILD, probe.center, tA, <<66, 65>>>>

\* ------------------------------------------------------------------------
\* Properties of the merge
\*
\* The properties are about a step of the store: the unprimed variables are
\* the store before a read, result' says which read it was and which
\* records it handed to the merge, and the primed variables are the store
\* it leaves.
\* ------------------------------------------------------------------------

ReadOps == {"read_prm", "read_amber_parm", "read_amber_frcmod", "read_ffld"}

\* the table and the identity a record is merged at
Key(prm) == <<TableOf(prm), prm.prm_id>>

Maximum(S) == CHOOSE x \in S : \A y \in S : y <= x

\* the record held at the key of prms[i] when prms[i] is merged, if the
\* records before it were merged: <<>> when the key is new
Held(prms, i) ==
    LET earlier == {j \in 1..(i - 1) : Key(prms[j]) = Key(prms[i])}
        tn      == TableOf(prms[i])
    IN  IF earlier # {} THEN <<prms[Maximum(earlier)]>>
        ELSE IF prms[i].prm_id \in DOMAIN Store[tn] THEN <<Store[tn][prms[i].prm_id]>>
        ELSE <<>>

\* the records of prms that meet a record at their key
Collisions(prms) == {i \in 1..Len(prms) : Held(prms, i) # <<>>}

\* the values of a record: everything but its comment, the terms of a
\* torsion in ascending order of multiplicity
Values(prm) ==
    IF prm.cls = "torsion" THEN [prm EXCEPT !._comment = "", !.terms = SortTerms(@)]
    ELSE [prm EXCEPT !._comment = ""]

ShownF(x) == IF x = <<>> THEN <<>> ELSE <<FmtF(x[1], 3)>>

\* the values of a record at the precision of its string representation;
\* a placeholder mass is a value of its own
Shown(prm) ==
    IF prm.cls = "atom"
    THEN <<"_PrmAtom", prm.prm_id, ShownF(prm.lj_A), ShownF(prm.lj_B),
           ShownF(prm.lj_R), ShownF(prm.lj_eps), ShownF(prm.mass)>>
    ELSE Repr(prm).s

\* both records have a string representation, and it is the same
SameRepr(p, q) == Repr(p).err = "" /\ Repr(q).err = "" /\ Repr(p).s = Repr(q).s

\* the force constants of a record, as given and as printed
ForceConstants(prm) ==
    CASE prm.cls \in {"bond", "angle", "improper"} -> <<prm.fc>>
      [] prm.cls = "torsion" ->
           LET t == PrmTorsion_get_prms(prm) IN [i \in 1..Len(t) |-> t[i].fc]
      [] OTHER -> <<>>

PrintedForceConstants(prm) ==
    LET fcs == ForceConstants(prm)
    IN  [i \in 1..Len(fcs) |-> FmtF(fcs[i], IF prm.cls = "torsion" THEN 4 ELSE 3)]

\* the number of records of a store
Size(st) ==
    Cardinality(DOMAIN st.atom_types) + Cardinality(DOMAIN st.bonds)
    + Cardinality(DOMAIN st.angles) + Cardinality(DOMAIN st.generic_torsions)
    + Cardinality(DOMAIN st.torsions) + Cardinality(DOMAIN st.generic_impropers)
    + Cardinality(DOMAIN st.impropers)

\* the events of one kind in a log
Events(log, what) == {i \in 1..Len(log) : log[i].what = what}

\* a read whose records parse, exactly one of which meets a record at its key
OneCollision ==
    /\ result'.op \in ReadOps
    /\ result'.parsed
    /\ Cardinality(Collisions(result'.prms)) = 1

TheCollision == CHOOSE i \in Collisions(result'.prms) : TRUE

Incoming == result'.prms[TheCollision]

Previous == Held(result'.prms, TheCollision)[1]

StoredAfter == Store'[TableOf(Incoming)][Incoming.prm_id]

\* C1: a read in which every record that meets a record at its identity
\* has that record's values (the atom types in either order) raises no
\* error under either policy, returns no audit record, reports each such
\* record as one duplicate, and adds nothing to the store for it.
C1_DuplicateMerge ==
    [][LET prms == result'.prms
           cs   == Collisions(prms)
       IN  (/\ result'.op \in ReadOps
            /\ result'.parsed
            /\ cs # {}
            /\ \A i \in cs : Values(prms[i]) = Values(Held(prms, i)[1]))
           => /\ result'.err = ""
              /\ result'.dups = <<>>
              /\ Cardinality(Events(result'.log, "duplicate")) = Cardinality(cs)
              /\ Events(result'.log, "conflict") = {}
              /\ Size(Store') = Size(Store) + Len(prms) - Cardinality(cs)]_vars

\* C2 as stated: under the strict policy a record whose force constant is
\* not the one of the record held at its identity raises QPrmError, and
\* the record held stays.
C2_Original ==
    [][(/\ OneCollision
        /\ ~ignore_errors
        /\ ForceConstants(Incoming) # ForceConstants(Previous))
       => /\ result'.err = "QPrmError"
          /\ StoredAfter = Previous]_vars

\* C2: under the strict policy a record whose force constant, printed
\* with the decimals of the string representation (three, four for the
\* terms of a torsion), is not the printed one of the record held at its
\* identity raises QPrmError, and the record held stays.
C2_StrictConflict ==
    [][(/\ OneCollision
        /\ ~ignore_errors
        /\ PrintedForceConstants(Incoming) # PrintedForceConstants(Previous))
       => /\ result'.err = "QPrmError"
          /\ StoredAfter = Previous]_vars

\* a strict store that still holds the bond of force constant 300.0 after
\* the read of the bond with 310.0 has raised
C2_Witness ==
    /\ ~ignore_errors
    /\ result.op = "read_prm"
    /\ result.err = "QPrmError"
    /\ Len(result.prms) = 1
    /\ result.prms[1].cls = "bond"
    /\ result.prms[1].fc = 31000000
    /\ Join(<<CT, HC>>) \in DOMAIN bonds
    /\ bonds[Join(<<CT, HC>>)].fc = 30000000

\* C3: under the relaxed policy a record that differs from the record
\* held at its identity in a value its string representation shows does
\* not raise; the store then holds the incoming record and the read
\* returns the record held before, for one file and for two.
C3_RelaxedConflict ==
    [][(/\ OneCollision
        /\ ignore_errors
        /\ Shown(Incoming) # Shown(Previous))
       => /\ result'.err = ""
          /\ StoredAfter = Incoming
          /\ result'.dups = <<Previous>>]_vars

\* C4 as stated: a record with the string representation of the record
\* held at its identity leaves the record held, and the serialized store,
\* as they were.
C4_Original ==
    [][(OneCollision /\ SameRepr(Incoming, Previous))
       => /\ StoredAfter = Previous
          /\ Size(Store) = Size(Store') =>
                get_string(Store', ff_type) = get_string(Store, ff_type)]_vars

\* C4: a record with the string representation of the record held at its
\* identity raises nothing and is reported as a duplicate; the store then
\* holds the incoming record, with its comment and its unrounded values,
\* and the string representation held at the identity is the same.
C4_DuplicateOverwrites ==
    [][(OneCollision /\ SameRepr(Incoming, Previous))
       => /\ result'.err = ""
          /\ result'.dups = <<>>
          /\ Cardinality(Events(result'.log, "duplicate")) = 1
          /\ StoredAfter = Incoming
          /\ SameRepr(StoredAfter, Previous)]_vars

\* the bond read as HC-CT 300.0004 with no comment has replaced the bond
\* CT-HC 300.0 with comment "c1", as a duplicate
C4_Witness ==
    /\ result.op = "read_prm"
    /\ result.err = ""
    /\ Events(result.log, "duplicate") # {}
    /\ Len(result.prms) = 1
    /\ result.prms[1].cls = "bond"
    /\ result.prms[1].fc = 30000040
    /\ Join(<<CT, HC>>) \in DOMAIN bonds
    /\ bonds[Join(<<CT, HC>>)].fc = 30000040

\* the identity computed again from the names of a record
IdentityOf(prm) ==
    CASE prm.cls = "atom"     -> PrmAtom_get_id(prm.atom_type)
      [] prm.cls = "bond"     -> PrmBond_get_id(prm.atom_types)
      [] prm.cls = "angle"    -> PrmAngle_get_id(prm.atom_types)
      [] prm.cls = "torsion"  -> PrmTorsion_get_id(prm.atom_types)
      [] prm.cls = "improper" ->
           PrmImproper_get_id(prm.atom_types[2], Without(prm.atom_types, 1)).id

KeysAreIdentities ==
    \A tn \in TableNames : \A k \in DOMAIN Store[tn] :
        LET prm == Store[tn][k]
        IN  prm.prm_id = k /\ TableOf(prm) = tn /\ IdentityOf(prm) = k

NothingRemoved == \A tn \in TableNames : DOMAIN Store[tn] \subseteq DOMAIN Store'[tn]

ReprStable ==
    \A tn \in TableNames : \A k \in DOMAIN Store[tn] \cap DOMAIN Store'[tn] :
        Shown(Store'[tn][k]) # Shown(Store[tn][k])
        => /\ ignore_errors
           /\ \E i \in Events(result'.log, "conflict") :
                 result'.log[i].tbl = tn /\ result'.log[i].id = k

\* C5: in every reachable store each table maps an identity to a record
\* whose identity, computed again from its names, is the key; no step
\* removes an identity; the string representation held at an identity
\* changes only in a step that logs a relaxed conflict for that identity.
C5_StoreInvariant ==
    []KeysAreIdentities /\ [][NothingRemoved /\ ReprStable]_vars

\* a relaxed store whose bond changed from 300.0 to 310.0 in a read that
\* logged the conflict
C5_Witness ==
    /\ ignore_errors
    /\ Events(result.log, "conflict") # {}
    /\ result.dups # <<>>
    /\ result.dups[1].cls = "bond"
    /\ result.dups[1].fc = 30000000
    /\ bonds[Join(<<CT, HC>>)].fc = 31000000

\* C6 as stated: a read that ends with an error leaves the tables, the
\* options and the mass table as they were before it.
C6_Original ==
    [][(result'.op \in ReadOps /\ result'.err # "") => Store' = Store]_vars

\* ------------------------------------------------------------------------
\* Properties of the serializer
\* ------------------------------------------------------------------------

\* get_string() of the store, read by read_prm into a fresh store of the
\* same force field type
RoundTrip == read_prm(EmptyStore, ReadBack(get_string(Store, ff_type)), ff_type, FALSE)

\* two numbers that differ by less than the fourth decimal that
\* get_string keeps of the Lennard-Jones parameters
Close(x, y) == Abs(x - y) <= 5

CloseOpt(x, y) == (x = <<>> /\ y = <<>>) \/ (x # <<>> /\ y # <<>> /\ Close(x[1], y[1]))

\* the values of a record read back (b) are those of the record written
\* (a); the multiplicity of an improper is not written
SameRecord(a, b) ==
    /\ a.cls = b.cls
    /\ a.prm_id = b.prm_id
    /\ CASE a.cls = "atom" ->
              /\ a.mass = b.mass
              /\ CloseOpt(a.lj_A, b.lj_A) /\ CloseOpt(a.lj_B, b.lj_B)
              /\ a.lj_R = b.lj_R /\ a.lj_eps = b.lj_eps
         [] a.cls = "bond" -> a.fc = b.fc /\ a.r0 = b.r0
         [] a.cls = "angle" -> a.fc = b.fc /\ a.theta0 = b.theta0
         [] a.cls = "torsion" -> PrmTorsion_get_prms(a) = PrmTorsion_get_prms(b)
         [] a.cls = "improper" -> a.fc = b.fc /\ a.phi0 = b.phi0

\* the same identities in every table with the same values, the same options
Equivalent(a, b) ==
    /\ a.options = b.options
    /\ \A tn \in TableNames :
          /\ DOMAIN a[tn] = DOMAIN b[tn]
          /\ \A k \in DOMAIN a[tn] : SameRecord(a[tn][k], b[tn][k])

OneWord(t) == t # <<>> /\ ~HasCommentChar(t) /\ Count(t, 32) = 0

\* every option key and value is one word, no key starts with "[", every
\* atom type name is one word and every mass is a number
Readable ==
    /\ \A i \in 1..Len(options) :
          OneWord(options[i][1]) /\ OneWord(options[i][2]) /\ options[i][1][1] # 91
    /\ \A k \in DOMAIN atom_types : atom_types[k].mass # <<>> /\ OneWord(k)
    /\ \A tn \in TableNames \ {"atom_types"} : \A k \in DOMAIN Store[tn] :
          \A i \in 1..Len(Store[tn][k].atom_types) : OneWord(Store[tn][k].atom_types[i])

MaxTorsionLines == 5

\* the number of torsion files read into one store
MaxTorsionReads == 2

\* A-B-C-D with multiplicities 1 and 2, the same terms written D-C-B-A,
\* and a torsion of another identity
TorsionTerms ==
    [ABCD1 |-> Data(<<W(tA), W(tB), W(tC), W(tD), N(100000), N(100000), N(0), N(100000)>>, ""),
     ABCD2 |-> Data(<<W(tA), W(tB), W(tC), W(tD), N(200000), N(200000), N(18000000), N(100000)>>, ""),
     DCBA1 |-> Data(<<W(tD), W(tC), W(tB), W(tA), N(100000), N(100000), N(0), N(100000)>>, ""),
     DCBA2 |-> Data(<<W(tD), W(tC), W(tB), W(tA), N(200000), N(200000), N(18000000), N(100000)>>, ""),
     ABCC |-> Data(<<W(tA), W(tB), W(tC), W(tC), N(300000), N(300000), N(0), N(100000)>>, "")]

TorsionFiles ==
    {<<Header("torsions")>> \o body :
        body \in {q \in SeqsUpTo({TorsionTerms.ABCD1, TorsionTerms.ABCD2, TorsionTerms.DCBA1, TorsionTerms.DCBA2, TorsionTerms.ABCC}, MaxTorsionLines) :
                    q # <<>> /\ \A i, j \in 1..Len(q) : i # j => q[i] # q[j]}}

ReadTorsions ==
    /\ nops < MaxTorsionReads
    /\ \E f \in TorsionFiles :
          Finish("read_prm", f, read_prm(Store, f, ff_type, ignore_errors))

NextTors == ReadTorsions

SpecTors == Init /\ [][NextTors]_vars

\* ------------------------------------------------------------------------
\* Properties of the aggregation of torsion terms
\* ------------------------------------------------------------------------

GroupABCD == {TorsionTerms.ABCD1, TorsionTerms.ABCD2}

GroupDCBA == {TorsionTerms.DCBA1, TorsionTerms.DCBA2}

\* the data lines of a native file with one section
Body(r) == Tail(r.input)

\* the lines of body are the lines of S, each once, in some order
InSomeOrder(body, S) ==
    Len(body) = Cardinality(S) /\ {body[i] : i \in 1..Len(body)} = S

\* one file holds the four lines, in some order, and is read first
OneFile == nops = 0 /\ InSomeOrder(Body(result'), GroupABCD \cup GroupDCBA)

\* one file holds the two groups with the line of another torsion between
\* them, and is read first
OneFileSeparated ==
    /\ nops = 0
    /\ Len(Body(result')) = 5
    /\ Body(result')[3] = TorsionTerms.ABCC
    /\ \E X, Y \in {GroupABCD, GroupDCBA} :
          /\ X # Y
          /\ InSomeOrder(SubSeq(Body(result'), 1, 2), X)
          /\ InSomeOrder(SubSeq(Body(result'), 4, 5), Y)

\* one group was read from a first file and the other is read from a second
TwoFiles ==
    /\ nops = 1
    /\ result.err = ""
    /\ \E X, Y \in {GroupABCD, GroupDCBA} :
          /\ X # Y
          /\ InSomeOrder(Body(result), X)
          /\ InSomeOrder(Body(result'), Y)

\* the store after the step holds the torsion A-B-C-D with the terms of
\* multiplicity 1 and 2 in this order, and others further torsions
OneTorsionTwoTerms(others) ==
    LET id == Join(<<tA, tB, tC, tD>>)
    IN  /\ result'.err = ""
        /\ id \in DOMAIN torsions'
        /\ Cardinality(DOMAIN torsions') = 1 + others
        /\ generic_torsions' = EmptyDict
        /\ Len(torsions'[id].terms) = 2
        /\ LET prms == PrmTorsion_get_prms(torsions'[id])
           IN  [i \in 1..Len(prms) |-> prms[i].multiplicity] = <<100000, 200000>>

\* C10 as stated: the two groups, in any line order, in one file or in
\* two, raise no error and leave one torsion with the terms [1, 2].
C10_Original ==
    [][(OneFile \/ TwoFiles) => OneTorsionTwoTerms(0)]_vars

\* C10: the two groups, each in either line order, leave one torsion with
\* the terms [1, 2] and raise no error when they are read from two files
\* one after the other, or from one file in which a torsion line of
\* another identity stands between them; four lines of the one identity
\* next to each other in one file are folded into one torsion, and the
\* read raises QPrmError for the repeated multiplicity and stores nothing.
C10_TorsionAggregation ==
    [][/\ TwoFiles => OneTorsionTwoTerms(0)
       /\ OneFileSeparated => OneTorsionTwoTerms(1)
       /\ OneFile => (result'.err = "QPrmError" /\ Store' = Store)]_vars

\* D-C-B-A with multiplicity 2 before 1 was read as a second file and
\* merged as a duplicate of the torsion A-B-C-D
C10_Witness ==
    /\ nops = 2
    /\ result.err = ""
    /\ Body(result) = <<TorsionTerms.DCBA2, TorsionTerms.DCBA1>>
    /\ Events(result.log, "duplicate") # {}
    /\ DOMAIN torsions = {Join(<<tA, tB, tC, tD>>)}
    /\ Len(torsions[Join(<<tA, tB, tC, tD>>)].terms) = 2



\* ------------------------------------------------------------------------
\* Properties of the [options] section
\* ------------------------------------------------------------------------

\* the options after the data lines 2..(i - 1) of a file of key/value lines
RECURSIVE OptionsBefore(_, _)
OptionsBefore(f, i) ==
    IF i <= 2 THEN options
    ELSE OdSet(OptionsBefore(f, i - 1), f[i - 1].toks[1].s, f[i - 1].toks[2].s)

\* line i gives a key that is in the options with another value
OptionConflictAt(f, i) ==
    LET before == OptionsBefore(f, i)
    IN  /\ HasKey(before, f[i].toks[1].s)
        /\ Lookup(before, f[i].toks[1].s) # f[i].toks[2].s

\* a native file that is one [options] section of key/value lines
OptionsFile(f) ==
    /\ Len(f) >= 2
    /\ f[1] = Header("options")
    /\ \A i \in 2..Len(f) : f[i].kind = "data" /\ Len(f[i].toks) = 2

\* the first line of the file that conflicts with the options
FirstOptionConflict(f) ==
    CHOOSE i \in 2..Len(f) :
        OptionConflictAt(f, i) /\ \A j \in 2..(i - 1) : ~OptionConflictAt(f, j)

\* C11: a line of [options] whose key is in the options with another value
\* raises QPrmError under the strict policy, and the old value stays; under
\* the relaxed policy the conflict is logged, the read goes on to the last
\* line and the options are those of all lines of the file, the new value
\* for the key included.
C11_OptionsConflict ==
    [][LET f == result'.input
       IN  (/\ result'.op = "read_prm"
            /\ OptionsFile(f)
            /\ \E i \in 2..Len(f) : OptionConflictAt(f, i))
           => LET i   == FirstOptionConflict(f)
                  key == f[i].toks[1].s
              IN  IF ~ignore_errors
                  THEN /\ result'.err = "QPrmError"
                       /\ Lookup(options', key) = Lookup(OptionsBefore(f, i), key)
                  ELSE /\ result'.err = ""
                       /\ result'.log # <<>>
                       /\ options' = OptionsBefore(f, Len(f) + 1)]_vars

\* what the code does with such a line: under both policies the read ends
\* with IndexError at that line and the old value stays
C11_Observed ==
    [][LET f == result'.input
       IN  (/\ result'.op = "read_prm"
            /\ OptionsFile(f)
            /\ \E i \in 2..Len(f) : OptionConflictAt(f, i))
           => LET i   == FirstOptionConflict(f)
              IN  /\ result'.err = "IndexError"
                  /\ options' = OptionsBefore(f, i)]_vars

\* ------------------------------------------------------------------------
\* Properties of the constructors
\* ------------------------------------------------------------------------

\* C12: constructing an improper with a multiplicity other than 2 raises
\* QPrmError and creates no record; multiplicity 2 is accepted.
C12_ImproperMultiplicity ==
    (probe.op = "new_improper" /\ Occurrences(probe.atom_types, WILD) < 3) =>
        IF probe.multiplicity = 200000
        THEN probe.err = "" /\ probe.out # <<>>
        ELSE probe.err = "QPrmError" /\ probe.out = <<>>

\* what the constructor does: a multiplicity of absolute value up to 2 is
\* accepted and kept as given; a larger one ends with AttributeError
C12_Observed ==
    (probe.op = "new_improper" /\ Occurrences(probe.atom_types, WILD) < 3) =>
        IF Abs(probe.multiplicity) <= 200000
        THEN probe.err = "" /\ probe.out.multiplicity = probe.multiplicity
        ELSE probe.err = "AttributeError" /\ probe.out = <<>>

\* ------------------------------------------------------------------------
\* Properties of the structure of a native file
\* ------------------------------------------------------------------------

KnownSections == {"options", "atom_types", "bonds", "angles", "torsions", "impropers"}

\* the section line i of a file is in: the name of the last header before
\* it, "" when there is none
SectionAt(f, i) ==
    LET hs == {j \in 1..(i - 1) : f[j].kind = "section"}
    IN  IF hs = {} THEN "" ELSE f[Maximum(hs)].name

UnknownHeaders(f) ==
    {i \in 1..Len(f) : f[i].kind = "section" /\ f[i].name \notin KnownSections}

\* the data lines that are in no section or in a section that is not known
StrayLines(f) ==
    {i \in 1..Len(f) : f[i].kind = "data" /\ SectionAt(f, i) \notin KnownSections}

\* the file without the headers of sections that are not known
RECURSIVE KnownOnly(_)
KnownOnly(f) ==
    IF f = <<>> THEN <<>>
    ELSE IF Head(f).kind = "section" /\ Head(f).name \notin KnownSections
         THEN KnownOnly(Tail(f))
         ELSE <<Head(f)>> \o KnownOnly(Tail(f))

C13_WitnessEmptySection ==
    /\ result.op = "read_prm"
    /\ Len(result.input) = 3
    /\ result.input[1] = Header("molecules")
    /\ result.err = ""
    /\ Join(<<CT, HC>>) \in DOMAIN bonds

\* ------------------------------------------------------------------------
\* Properties of the force field type
\* ------------------------------------------------------------------------

\* a reader called on a store of the other force field type
WrongReader ==
    \/ result'.op \in {"read_amber_parm", "read_amber_frcmod"} /\ ff_type = "oplsaa"
    \/ result'.op = "read_ffld" /\ ff_type = "amber"

\* C14: read_amber_parm and read_amber_frcmod on a store of type oplsaa,
\* and read_ffld on a store of type amber, raise QPrmError, log nothing and
\* leave the store as it was; a store constructed with a name that is, in
\* lower case, oplsaa or amber has that type and empty mappings, and any
\* other name raises QPrmError.
C14_ForceFieldGuard ==
    [][/\ WrongReader =>
             /\ result'.err = "QPrmError"
             /\ result'.log = <<>>
             /\ Store' = Store
       /\ result'.op = "QPrm" =>
             LET name == result'.input
             IN  /\ name \in {<<111, 112, 108, 115, 97, 97>>, <<79, 80, 76, 83, 65, 65>>}
                      => /\ result'.err = ""
                         /\ result'.created = [ff_type |-> "oplsaa", st |-> EmptyStore]
                 /\ name \in {<<97, 109, 98, 101, 114>>, <<65, 109, 98, 101, 114>>}
                      => /\ result'.err = ""
                         /\ result'.created = [ff_type |-> "amber", st |-> EmptyStore]
                 /\ name \in {<<103, 97, 102, 102>>, <<65, 77, 66, 69, 82, 49, 52>>}
                      => /\ result'.err = "QPrmError"
                         /\ result'.created.st = <<>>]_vars

\* a store of type oplsaa that holds a bond, on which read_amber_parm has
\* just raised QPrmError
C14_Witness ==
    /\ ff_type = "oplsaa"
    /\ result.op = "read_amber_parm"
    /\ result.err = "QPrmError"
    /\ bonds # EmptyDict

\* the name "OPLSAA" was accepted
C14_WitnessConstructed ==
    /\ result.op = "QPrm"
    /\ result.input = <<79, 80, 76, 83, 65, 65>>
    /\ result.err = ""

\* ------------------------------------------------------------------------
\* Properties of the list a read returns
\* ------------------------------------------------------------------------

\* the records of one class, in the order they have in prms
OfClass(prms, c) == SelectSeq(prms, LAMBDA p : p.cls = c)

\* the records in the order atom types, bonds, angles, torsions, impropers,
\* those of one class in the order they have in prms
ByClass(prms) ==
    OfClass(prms, "atom") \o OfClass(prms, "bond") \o OfClass(prms, "angle")
    \o OfClass(prms, "torsion") \o OfClass(prms, "improper")

\* for records merged in the order of prms: the record held at the
\* identity of each record whose string representation is another one
RECURSIVE OverwrittenFrom(_, _)
OverwrittenFrom(prms, i) ==
    IF i > Len(prms) THEN <<>>
    ELSE (IF Held(prms, i) # <<>> /\ Repr(prms[i]).s # Repr(Held(prms, i)[1]).s
          THEN Held(prms, i) ELSE <<>>) \o OverwrittenFrom(prms, i + 1)

\* the classes of a list of records come in blocks
InBlocks(l) ==
    \A i, j, k \in 1..Len(l) : (i < j /\ j < k /\ l[i].cls = l[k].cls) => l[j].cls = l[i].cls

\* a read that returned a list
Returned == result'.op \in ReadOps /\ result'.err = ""

\* C15 as stated: the list a read returns holds the record held before at
\* each merge of a record with another string representation, the merges
\* taken in the order atom types, bonds, angles, torsions, impropers and in
\* file order within a class.
C15_Original ==
    [][Returned => result'.dups = OverwrittenFrom(ByClass(result'.prms), 1)]_vars

\* C15: the list a read returns holds, for each merge of a record whose
\* string representation is not that of the record held at its identity,
\* the record held before, and nothing else: no entry for a new identity
\* or a duplicate, one entry for a record of the same read that a later
\* record replaces.  The entries of one class are together and in file
\* order; the classes come in the order in which the dict of the parsed
\* records is iterated, which is the order atom types, bonds, angles,
\* torsions, impropers only where dicts keep the order of insertion.
C15_AuditList ==
    [][Returned =>
          /\ result'.dups = OverwrittenFrom(result'.prms, 1)
          /\ InBlocks(result'.dups)
          /\ \A c \in {"atom", "bond", "angle", "torsion", "improper"} :
                OfClass(result'.dups, c) = OverwrittenFrom(OfClass(result'.prms, c), 1)
          /\ class_order = <<"atoms", "bonds", "angles", "torsions", "impropers">>
                => result'.dups = OverwrittenFrom(ByClass(result'.prms), 1)]_vars

\* a relaxed read of an atom type and a bond, in this order in the file,
\* that returned the bond held before and then the atom type held before
C15_Witness ==
    /\ ignore_errors
    /\ result.op = "read_prm"
    /\ result.input[1] = Header("atom_types")
    /\ Len(result.dups) = 2
    /\ result.dups[1].cls = "bond"
    /\ result.dups[2].cls = "atom"

\* a relaxed read of two bonds that returned the bond held before and the
\* first bond of the file, which the second one replaced
C15_WitnessTwice ==
    /\ ignore_errors
    /\ result.op = "read_prm"
    /\ Len(result.prms) = 2
    /\ Len(result.dups) = 2
    /\ result.dups[2] = result.prms[1]

\* ------------------------------------------------------------------------
\* Properties of the order of the serialized records
\* ------------------------------------------------------------------------

\* the data lines of a section of a serialized text
SectionLines(text, name) ==
    LET h == CHOOSE i \in 1..Len(text) : text[i] = [kind |-> "section", name |-> name]
        e == CHOOSE i \in (h + 1)..Len(text) :
                 text[i].kind = "blank" /\ \A j \in (h + 1)..(i - 1) : text[j].kind = "data"
    IN  SubSeq(text, h + 1, e - 1)

\* the atom type names of a printed line of a torsion or an improper
LineNames(pl) == [i \in 1..4 |-> pl.toks[i].s]

\* the identities of the records of a section in the order of their lines
LineIds(lines) == [i \in 1..Len(lines) |-> Join(LineNames(lines[i]))]

Wildcards(id) == Occurrences(Split(id), WILD)

\* identities in the order of the serializer: among generic ones no
\* identity with fewer wildcards before one with more, no concrete one
\* before a generic one, the concrete ones in ascending order
WildcardsFirst(ids) ==
    \A i, j \in 1..Len(ids) : i < j =>
        /\ Wildcards(ids[i]) >= Wildcards(ids[j]) \/ Wildcards(ids[j]) = 0
        /\ Wildcards(ids[i]) = 0 => Wildcards(ids[j]) = 0
        /\ (Wildcards(ids[i]) = 0 /\ Wildcards(ids[j]) = 0) => ~StrLt(ids[j], ids[i])

\* the identities of a list of lines, each once
IdSet(lines) == {LineIds(lines)[i] : i \in 1..Len(lines)}

C16_WitnessImpropers ==
    /\ Cardinality(DOMAIN generic_impropers) = 2
    /\ LineIds(SectionLines(get_string(Store, ff_type), "impropers"))
          = <<Join(<<WILD, tC, tA, WILD>>), Join(<<WILD, tA, tB, tC>>)>>

\* ------------------------------------------------------------------------
\* Properties of the explicit lists of the serializer
\* ------------------------------------------------------------------------

\* a store that holds the records of a list and nothing else
StoreOnly(l) ==
    LET S == {l[i] : i \in 1..Len(l)}
        table(tn) ==
            [k \in {p.prm_id : p \in {q \in S : TableOf(q) = tn}} |->
                CHOOSE p \in S : TableOf(p) = tn /\ p.prm_id = k]
    IN  [EmptyStore EXCEPT !.atom_types = table("atom_types"),
                           !.bonds = table("bonds"),
                           !.angles = table("angles"),
                           !.generic_torsions = table("generic_torsions"),
                           !.torsions = table("torsions"),
                           !.generic_impropers = table("generic_impropers"),
                           !.impropers = table("impropers")]

\* the lines of a sequence as a bag: each line with the number of its
\* occurrences
LineBag(lines) ==
    [x \in {lines[i] : i \in 1..Len(lines)} |->
        Cardinality({i \in 1..Len(lines) : lines[i] = x})]

\* C17: in a serialization the section of a class with an explicit list
\* is the section a store of exactly the records of that list would get,
\* with the order of the full store, wildcard precedence included; the
\* section of a class without a list is the one of the store; the store
\* is not changed.
C17_ExplicitLists ==
    [][result'.op = "get_string" =>
          /\ \A c \in DOMAIN NoLists :
                SectionLines(result'.text, c) =
                   SectionLines(get_string(IF result'.input[c] = <<>> THEN Store
                                           ELSE StoreOnly(result'.input[c][1]),
                                           ff_type), c)
          /\ Store' = Store]_vars

\* what the serializer does: the section of a class with an explicit list
\* has the lines a store of exactly the records of that list would get, in
\* ascending order of identity, generic records like the others; the
\* section of a class without a list is the one of the store; the store is
\* not changed.
C17_Observed ==
    [][result'.op = "get_string" =>
          /\ \A c \in DOMAIN NoLists :
                LET lines == SectionLines(result'.text, c)
                IN  IF result'.input[c] = <<>>
                    THEN lines = SectionLines(get_string(Store, ff_type), c)
                    ELSE /\ LineBag(lines) =
                               LineBag(SectionLines(
                                   get_string(StoreOnly(result'.input[c][1]), ff_type), c))
                         /\ c \in {"torsions", "impropers"} =>
                               \A i, j \in 1..Len(lines) : i < j =>
                                  ~StrLt(LineIds(lines)[j], LineIds(lines)[i])
          /\ Store' = Store]_vars

\* ------------------------------------------------------------------------
\* Properties of the torsion records of a native file
\* ------------------------------------------------------------------------

\* the canonical identity of a [torsions] line
TorsionId(line) == PrmTorsion_get_id(Texts(line.toks, 0, 4))

\* the term a [torsions] line stands for
TermOf(line) ==
    LET mult  == Float(line.toks, 5)
        phase == Float(line.toks, 6)
    IN  [fc |-> Float(line.toks, 4),
         multiplicity |-> IF phase \in {0, 18000000} THEN Abs(mult) ELSE mult,
         phase |-> phase, npaths |-> Float(line.toks, 7)]

\* the lines that start a maximal run of consecutive lines of one identity
Starts(body) ==
    {i \in 1..Len(body) : i = 1 \/ TorsionId(body[i]) # TorsionId(body[i - 1])}

\* the pieces of a sequence of lines that start at the lines S, in file
\* order
RunsAt(body, S) ==
    LET nth(k)  == CHOOSE i \in S : Cardinality({j \in S : j <= i}) = k
        last(i) == IF \E j \in S : j > i
                   THEN (CHOOSE j \in S : j > i /\ \A m \in S : m > i => j <= m) - 1
                   ELSE Len(body)
    IN  [k \in 1..Cardinality(S) |-> SubSeq(body, nth(k), last(nth(k)))]

\* the maximal runs of consecutive lines of one identity, in file order
Runs(body) == RunsAt(body, Starts(body))

RunTerms(run) == [i \in 1..Len(run) |-> TermOf(run[i])]

\* two lines of a run have the same absolute multiplicity
Repeats(run) ==
    \E i, j \in 1..Len(run) :
        i < j /\ Abs(TermOf(run[i]).multiplicity) = Abs(TermOf(run[j]).multiplicity)

TermSet(terms) == {terms[i] : i \in 1..Len(terms)}

\* C18: a file of [torsions] lines in which no maximal run of consecutive
\* lines of one identity repeats a multiplicity is parsed into one torsion
\* record per run, in file order, with one term per line of the run in
\* line order (a run that repeats a multiplicity ends the read with
\* QPrmError and nothing stored); two runs of one identity separated by a
\* line of another identity are two records, and when the file is the
\* first one read they are merged in file order:
\* with differing terms strict mode raises QPrmError at the later record
\* and the store keeps the earlier one, relaxed mode raises nothing,
\* stores the terms of the later record only and returns the earlier one;
\* with the same terms the later record replaces the earlier without error.
C18_TorsionAdjacency ==
    result.op = "read_prm" =>
       LET runs == Runs(Body(result))
           recs == result.prms
       IN  IF \E k \in 1..Len(runs) : Repeats(runs[k])
           THEN /\ result.err = "QPrmError"
                /\ ~result.parsed
                /\ nops = 1 => Store = EmptyStore
           ELSE /\ result.parsed
                /\ Len(recs) = Len(runs)
                /\ \A k \in 1..Len(runs) :
                      /\ recs[k].prm_id = TorsionId(runs[k][1])
                      /\ recs[k].terms = RunTerms(runs[k])
                /\ nops = 1 =>
                      \A i, j \in 1..Len(runs) :
                         (/\ i < j
                          /\ TorsionId(runs[i][1]) = TorsionId(runs[j][1])) =>
                            LET id     == TorsionId(runs[i][1])
                                differ == TermSet(RunTerms(runs[i]))
                                          # TermSet(RunTerms(runs[j]))
                            IN  IF differ /\ ~ignore_errors
                                THEN /\ result.err = "QPrmError"
                                     /\ torsions[id].terms = RunTerms(runs[i])
                                ELSE /\ result.err = ""
                                     /\ torsions[id].terms = RunTerms(runs[j])
                                     /\ differ =>
                                          \E d \in 1..Len(result.dups) :
                                             /\ result.dups[d].prm_id = id
                                             /\ result.dups[d].terms
                                                = RunTerms(runs[i])

\* relaxed mode read A-B-C-D (multiplicity 1), A-B-C-C, D-C-B-A
\* (multiplicity 2) as three records and stored the term of the last line
\* only for A-B-C-D
C18_Witness ==
    /\ nops = 1
    /\ ignore_errors
    /\ result.err = ""
    /\ Body(result) = <<TorsionTerms.ABCD1, TorsionTerms.ABCC, TorsionTerms.DCBA2>>
    /\ Len(result.prms) = 3
    /\ torsions[Join(<<tA, tB, tC, tD>>)].terms = <<TermOf(TorsionTerms.DCBA2)>>

\* strict mode read the same file: the conflict error, and the store holds
\* the record of the first line
C18_WitnessStrict ==
    /\ nops = 1
    /\ ~ignore_errors
    /\ result.err = "QPrmError"
    /\ result.parsed
    /\ Body(result) = <<TorsionTerms.ABCD1, TorsionTerms.ABCC, TorsionTerms.DCBA2>>
    /\ torsions[Join(<<tA, tB, tC, tD>>)].terms = <<TermOf(TorsionTerms.ABCD1)>>

\* the run D-C-B-A (multiplicity 2), A-B-C-D (multiplicity 1) was folded
\* into one record with the two terms in line order
C18_WitnessRun ==
    /\ nops = 1
    /\ result.err = ""
    /\ Body(result) = <<TorsionTerms.DCBA2, TorsionTerms.ABCD1>>
    /\ Len(result.prms) = 1
    /\ result.prms[1].terms = <<TermOf(TorsionTerms.DCBA2), TermOf(TorsionTerms.ABCD1)>>

\* ------------------------------------------------------------------------
\* Torsion terms: the reads of native and legacy files that hold torsion
\* lines only, the reads of the export format, and calls of add_prm on a
\* torsion of the store
\* ------------------------------------------------------------------------

\* the longest torsion block of a legacy file
MaxLegacyLines == 3

\* the lines of the torsion blocks: those of AmberLines and A-B-C-D with
\* multiplicity -3 (continued)
LegacyTorsionLines ==
    {AmberLines.torsions.Gen, AmberLines.torsions.Neg2, AmberLines.torsions.Pos1,
     AmberLines.torsions.Pos2,
     [cols |-> <<tA, tB, tC, tD>>, npaths |-> <<100000>>, fc |-> <<30000>>,
      phase |-> <<0>>, mult |-> <<-300000>>]}

LegacyTorsionFiles ==
    {AmberFile(<<>>, <<>>, <<>>, t, <<>>, <<>>, <<>>) :
        t \in SeqsUpTo(LegacyTorsionLines, MaxLegacyLines) \ {<<>>}}

\* the terms handed to add_prm: multiplicities 1, -1 and 4 with the phases
\* 0 and 90 degrees
NewTerms ==
    {[fc |-> 50000, multiplicity |-> m, phase |-> ph, npaths |-> 100000] :
        m \in {100000, -100000, 400000}, ph \in {0, 9000000}}

ReadPrmTorsions ==
    /\ nops < MaxOps
    /\ \E f \in OneSection("torsions", NativeLines.torsions \cup NativeLines.generic_torsions) :
          Finish("read_prm", f, read_prm(Store, f, ff_type, ignore_errors))

ReadAmberParmTorsions ==
    /\ nops < MaxOps
    /\ \E f \in LegacyTorsionFiles :
          Finish("read_amber_parm", f, read_amber_parm(Store, f, ff_type, ignore_errors))

ReadAmberFrcmodTorsions ==
    /\ nops < MaxOps
    /\ \E f \in LegacyTorsionFiles :
          Finish("read_amber_frcmod", f, read_amber_frcmod(Store, f, ff_type, ignore_errors))

\* the host calls add_prm on a torsion of the store: input holds the torsion
\* before the call and the term
AddTorsionTerm ==
    /\ nops < MaxOps
    /\ \E tn \in {"torsions", "generic_torsions"} :
          \E id \in DOMAIN Store[tn], x \in NewTerms :
             LET t == Store[tn][id]
                 r == PrmTorsion_add_prm(t, x.fc, x.multiplicity, x.phase, x.npaths)
             IN  /\ SetStore([Store EXCEPT ![tn] = DictSet(@, id, r.prm)])
                 /\ result' = [op |-> "add_prm", input |-> [t |-> t, term |-> x],
                               err |-> r.err, dups |-> <<>>, log |-> <<>>,
                               parsed |-> FALSE, prms |-> <<>>]
    /\ nops' = nops + 1
    /\ UNCHANGED <<ignore_errors, ff_type, probe, class_order>>

NextTerms ==
    \/ ReadPrmTorsions \/ ReadAmberParmTorsions \/ ReadAmberFrcmodTorsions
    \/ ReadFfld \/ AddTorsionTerm

SpecTerms == Init /\ [][NextTerms]_vars

\* ------------------------------------------------------------------------
\* Properties of the terms of a torsion
\* ------------------------------------------------------------------------

\* the absolute multiplicities of a list of terms are pairwise distinct
DistinctMultiplicities(terms) ==
    \A i, j \in 1..Len(terms) :
        i # j => Abs(terms[i].multiplicity) # Abs(terms[j].multiplicity)

\* the torsions of the store, of the records handed to the merge and of
\* the records returned
AllTorsions ==
    {torsions[id] : id \in DOMAIN torsions}
    \cup {generic_torsions[id] : id \in DOMAIN generic_torsions}
    \cup {p \in {result.prms[i] : i \in 1..Len(result.prms)} : p.cls = "torsion"}
    \cup {p \in {result.dups[i] : i \in 1..Len(result.dups)} : p.cls = "torsion"}

\* the lines that start a torsion in a legacy block: the first, and every
\* line after a line of another identity or of a multiplicity that is not
\* negative
LegacyId(line) == PrmTorsion_get_id(AmberTypesX(line.cols))

LegacyStarts(block) ==
    {i \in 1..Len(block) :
        \/ i = 1
        \/ LegacyId(block[i]) # LegacyId(block[i - 1])
        \/ block[i - 1].mult[1] >= 0}

\* a line of a legacy block has the absolute multiplicity of an earlier
\* line of its torsion
LegacyRepeats(block) ==
    \E i, j \in 1..Len(block) :
        /\ i < j
        /\ \A m \in (i + 1)..j : m \notin LegacyStarts(block)
        /\ Abs(block[i].mult[1]) = Abs(block[j].mult[1])

\* C19: in every reachable state every torsion of the store, of the
\* records parsed and of the records returned has at least one term, and
\* the absolute multiplicities of its terms are pairwise distinct; a call
\* of add_prm with an absolute multiplicity the torsion has raises
\* ValueError and leaves the torsion as it was, any other call appends the
\* term; a native file with such a line in a run of one identity, and a
\* legacy file with such a line in a continued torsion, end the read with
\* QPrmError.
C19_TorsionTerms ==
    /\ \A t \in AllTorsions : t.terms # <<>> /\ DistinctMultiplicities(t.terms)
    /\ result.op = "add_prm" =>
          LET t   == result.input.t
              x   == result.input.term
              tn  == TableOf(t)
              has == \E i \in 1..Len(t.terms) :
                        Abs(t.terms[i].multiplicity) = Abs(x.multiplicity)
          IN  IF has
              THEN result.err = "ValueError" /\ Store[tn][t.prm_id] = t
              ELSE /\ result.err = ""
                   /\ Len(Store[tn][t.prm_id].terms) = Len(t.terms) + 1
                   /\ SubSeq(Store[tn][t.prm_id].terms, 1, Len(t.terms)) = t.terms
                   /\ Abs(Store[tn][t.prm_id].terms[Len(t.terms) + 1].multiplicity)
                      = Abs(x.multiplicity)
    /\ (/\ result.op = "read_prm"
        /\ \E k \in 1..Len(Runs(Body(result))) : Repeats(Runs(Body(result))[k])) =>
          result.err = "QPrmError" /\ ~result.parsed
    /\ (/\ result.op \in {"read_amber_parm", "read_amber_frcmod"}
        /\ LegacyRepeats(result.input.torsions)) =>
          result.err = "QPrmError" /\ ~result.parsed

\* add_prm was called with multiplicity -1 and phase 90 on a stored torsion
\* that has a term of multiplicity 1, and raised ValueError
C19_Witness ==
    /\ result.op = "add_prm"
    /\ result.err = "ValueError"
    /\ result.input.term.multiplicity = -100000
    /\ result.input.term.phase = 9000000
    /\ \E i \in 1..Len(result.input.t.terms) :
          result.input.t.terms[i].multiplicity = 100000

\* add_prm was called with multiplicity -1 and phase 90 on a stored torsion
\* without a term of multiplicity 1: the term is stored with its sign
C19_WitnessAdded ==
    /\ result.op = "add_prm"
    /\ result.err = ""
    /\ \E id \in DOMAIN torsions :
          \E i \in 1..Len(torsions[id].terms) :
             torsions[id].terms[i].multiplicity = -100000

\* a native file with a run that repeats a multiplicity was read
C19_WitnessNative ==
    /\ result.op = "read_prm"
    /\ Body(result) = <<Data(<<W(tA), W(tB), W(tC), W(tD), N(100000), N(100000), N(0), N(100000)>>, ""), Data(<<W(tD), W(tC), W(tB), W(tA), N(100000), N(100000), N(0), N(100000)>>, "")>>
    /\ result.err = "QPrmError"

\* a legacy file with multiplicity -2 continued by 2 was read into a store
\* of the legacy force field
C19_WitnessLegacy ==
    /\ result.op = "read_amber_parm"
    /\ ff_type = "amber"
    /\ result.input.torsions = <<AmberLines.torsions.Neg2, AmberLines.torsions.Pos2>>
    /\ result.err = "QPrmError"

\* ------------------------------------------------------------------------
\* Properties of the torsion records of a legacy file
\* ------------------------------------------------------------------------

\* the term a legacy torsion line stands for
LegacyTerm(line) ==
    [fc |-> line.fc[1], multiplicity |-> Abs(line.mult[1]),
     phase |-> line.phase[1], npaths |-> line.npaths[1]]

\* the torsions of a legacy block: each starts at the first line, at a
\* line after a multiplicity that is not negative, or at a line of another
\* identity than the line before it, and goes on to the next such line
LegacyRuns(block) == RunsAt(block, LegacyStarts(block))

\* C20: both legacy readers, on a store of the legacy force field and a
\* file of torsion lines, hand to the merge one torsion record per line
\* that is the first, follows a line whose multiplicity is not negative,
\* or has another identity than the line before it; every other line adds
\* its term (with the absolute multiplicity) to the record of the line
\* before it, in line order; the read ends with QPrmError when such a line
\* repeats an absolute multiplicity of its record.
C20_LegacyContinuation ==
    (result.op \in {"read_amber_parm", "read_amber_frcmod"} /\ ff_type = "amber") =>
       LET block == result.input.torsions
           runs  == LegacyRuns(block)
           recs  == result.prms
       IN  IF LegacyRepeats(block)
           THEN result.err = "QPrmError" /\ ~result.parsed
           ELSE /\ result.parsed
                /\ Len(recs) = Len(runs)
                /\ \A k \in 1..Len(runs) :
                      /\ recs[k].cls = "torsion"
                      /\ recs[k].prm_id = LegacyId(runs[k][1])
                      /\ recs[k].terms = [i \in 1..Len(runs[k]) |-> LegacyTerm(runs[k][i])]

\* the full reader read A-B-C-D with multiplicity -2 and then D-C-B-A with
\* 1 as one record of two terms
C20_Witness ==
    /\ result.op = "read_amber_parm"
    /\ ff_type = "amber"
    /\ result.input.torsions = <<AmberLines.torsions.Neg2, AmberLines.torsions.Pos1>>
    /\ result.parsed
    /\ Len(result.prms) = 1
    /\ Len(result.prms[1].terms) = 2

\* the patch reader read A-B-C-D with multiplicity 2 and then D-C-B-A with
\* 1 as two records
C20_WitnessPositive ==
    /\ result.op = "read_amber_frcmod"
    /\ ff_type = "amber"
    /\ result.input.torsions = <<AmberLines.torsions.Pos2, AmberLines.torsions.Pos1>>
    /\ result.parsed
    /\ Len(result.prms) = 2

\* the full reader read A-B-C-D with multiplicity -2, the generic torsion
\* and D-C-B-A with 1 as three records
C20_WitnessOtherIdentity ==
    /\ result.op = "read_amber_parm"
    /\ ff_type = "amber"
    /\ result.input.torsions = <<AmberLines.torsions.Neg2, AmberLines.torsions.Gen,
                                 AmberLines.torsions.Pos1>>
    /\ result.parsed
    /\ Len(result.prms) = 3

\* ------------------------------------------------------------------------
\* Properties of the multiplicities read from a legacy file
\* ------------------------------------------------------------------------

LegacyOps == {"read_amber_parm", "read_amber_frcmod"}

\* the multiplicities of the terms of the torsions parsed are not negative
TorsionTermsNotNegative ==
    \A i \in 1..Len(result.prms) :
        result.prms[i].cls = "torsion" =>
           \A k \in 1..Len(result.prms[i].terms) :
               result.prms[i].terms[k].multiplicity >= 0

\* C21: every torsion term and every improper parsed from a legacy file
\* holds the absolute value of the multiplicity field of its line, so none
\* is negative.
C21_LegacyMultiplicity ==
    (result.op \in LegacyOps /\ result.parsed) =>
       LET imps == OfClass(result.prms, "improper")
       IN  /\ TorsionTermsNotNegative
           /\ Len(imps) = Len(result.input.impropers)
           /\ \A k \in 1..Len(imps) :
                 imps[k].multiplicity = Abs(result.input.impropers[k].mult[1])

\* what the legacy readers do: the multiplicity of a torsion term is not
\* negative, the multiplicity of an improper is the field of its line with
\* its sign.
C21_Observed ==
    (result.op \in LegacyOps /\ result.parsed) =>
       LET imps == OfClass(result.prms, "improper")
       IN  /\ TorsionTermsNotNegative
           /\ Len(imps) = Len(result.input.impropers)
           /\ \A k \in 1..Len(imps) :
                 imps[k].multiplicity = result.input.impropers[k].mult[1]

\* an improper with the multiplicity -2 of its line is in the store
C21_StoredNegative ==
    /\ result.op \in LegacyOps
    /\ result.err = ""
    /\ \E id \in DOMAIN impropers : impropers[id].multiplicity = -200000

\* ------------------------------------------------------------------------
\* Properties of the force constants read from a legacy file
\* ------------------------------------------------------------------------

\* C22: the k-th bond and the k-th angle parsed from a legacy file hold
\* twice the force constant of the k-th line of their block and its
\* equilibrium length or angle; the k-th improper holds the force constant
\* and the phase of its line, and the i-th term of the k-th torsion the
\* force constant of its line.
C22_LegacyForceConstants ==
    (result.op \in LegacyOps /\ result.parsed) =>
       LET f    == result.input
           bs   == OfClass(result.prms, "bond")
           as   == OfClass(result.prms, "angle")
           ts   == OfClass(result.prms, "torsion")
           is   == OfClass(result.prms, "improper")
           runs == LegacyRuns(f.torsions)
       IN  /\ Len(bs) = Len(f.bonds)
           /\ \A k \in 1..Len(bs) :
                 bs[k].fc = 2 * f.bonds[k].fc[1] /\ bs[k].r0 = f.bonds[k].r0[1]
           /\ Len(as) = Len(f.angles)
           /\ \A k \in 1..Len(as) :
                 as[k].fc = 2 * f.angles[k].fc[1] /\ as[k].theta0 = f.angles[k].t0[1]
           /\ Len(is) = Len(f.impropers)
           /\ \A k \in 1..Len(is) :
                 is[k].fc = f.impropers[k].fc[1] /\ is[k].phi0 = f.impropers[k].phi0[1]
           /\ Len(ts) = Len(runs)
           /\ \A k \in 1..Len(ts) :
                 /\ Len(ts[k].terms) = Len(runs[k])
                 /\ \A i \in 1..Len(runs[k]) : ts[k].terms[i].fc = runs[k][i].fc[1]

\* the patch reader stored the bond CT-HC of the line with force constant
\* 155.0 with 310.0
C22_Witness ==
    /\ result.op = "read_amber_frcmod"
    /\ result.err = ""
    /\ result.input.bonds = <<AmberLines.bonds.CTHC155>>
    /\ bonds[Join(<<CT, HC>>)].fc = 31000000
    /\ bonds[Join(<<CT, HC>>)].r0 = 109000

\* the full reader parsed an angle, a torsion and an improper
C22_WitnessFull ==
    /\ result.op = "read_amber_parm"
    /\ result.err = ""
    /\ result.input.angles = <<AmberLines.angles.HCH>>
    /\ \E id \in DOMAIN angles : angles[id].fc = 3500000
    /\ \E id \in DOMAIN generic_torsions : generic_torsions[id].terms[1].fc = 140000
    /\ \E id \in DOMAIN impropers : impropers[id].fc = 1000000

\* ------------------------------------------------------------------------
\* Properties of the atom types of a full legacy parameter set
\* ------------------------------------------------------------------------

\* the alias row of an atom type: the last row of the table that starts
\* with it, the type alone when there is none
AliasRow(file, a) ==
    LET rows == {i \in 1..Len(file.same) : ReplaceStar(file.same[i][1].s) = a}
    IN  IF rows = {} THEN <<a>>
        ELSE LET r == file.same[CHOOSE i \in rows : \A j \in rows : j <= i]
             IN  [k \in 1..Len(r) |-> ReplaceStar(r[k].s)]

\* name, representative and Lennard-Jones values of the atom types the
\* non-bonded lines from line k on stand for
RECURSIVE ExpectedAtoms(_, _)
ExpectedAtoms(file, k) ==
    IF k > Len(file.nonb) THEN <<>>
    ELSE LET line == file.nonb[k]
             a    == ReplaceStar(line[1].s)
             row  == AliasRow(file, a)
         IN  [i \in 1..Len(row) |->
                 [name |-> row[i], of |-> a,
                  lj_R |-> Float(line, 1), lj_eps |-> Float(line, 2)]]
             \o ExpectedAtoms(file, k + 1)

\* C23: the atom types the full reader parses are, line by line of the
\* non-bonded block, one record for every type of the alias row that the
\* type of the line starts (the type itself and each synonym), and one
\* record of the type itself when it starts no row, each with the
\* Lennard-Jones values of the line.
C23_AliasReplication ==
    (result.op = "read_amber_parm" /\ result.parsed) =>
       LET atoms == OfClass(result.prms, "atom")
           exp   == ExpectedAtoms(result.input, 1)
       IN  /\ Len(atoms) = Len(exp)
           /\ \A k \in 1..Len(exp) :
                 /\ atoms[k].prm_id = exp[k].name
                 /\ atoms[k].lj_R = <<exp[k].lj_R>>
                 /\ atoms[k].lj_eps = <<exp[k].lj_eps>>

\* the line of C* with the row "C* CA" and the line of HC were read: the
\* store holds Cstar and CA with the values of the first line, and HC
C23_Witness ==
    /\ result.op = "read_amber_parm"
    /\ result.err = ""
    /\ result.input.nonb = <<AmberLines.nonb.Cstar, AmberLines.nonb.HC>>
    /\ Len(result.prms) = 3
    /\ DOMAIN atom_types = {AmberColumns.Cstar, AmberColumns.CA, HC}
    /\ atom_types[AmberColumns.CA].lj_R = <<190800>>
    /\ atom_types[AmberColumns.CA].lj_eps = <<8600>>

\* ------------------------------------------------------------------------
\* Properties of the masses of the atom types of a full legacy parameter
\* set
\* ------------------------------------------------------------------------

\* C29: every atom type the full reader parses from a non-bonded line,
\* whose name has a mass in the mass table of the store, carries that
\* mass.
C29_OwnMass ==
    (result.op = "read_amber_parm" /\ result.parsed) =>
       LET atoms == OfClass(result.prms, "atom")
       IN  \A k \in 1..Len(atoms) :
              atoms[k].prm_id \in DOMAIN amber_masses =>
                 atoms[k].mass = <<amber_masses[atoms[k].prm_id]>>

\* what the full reader does: every atom type of a non-bonded line, the
\* synonyms of an alias row too, carries the mass that the mass table
\* holds for the type of the line.
C29_Observed ==
    (result.op = "read_amber_parm" /\ result.parsed) =>
       LET atoms == OfClass(result.prms, "atom")
           exp   == ExpectedAtoms(result.input, 1)
       IN  /\ Len(atoms) = Len(exp)
           /\ \A k \in 1..Len(exp) :
                 /\ exp[k].of \in DOMAIN amber_masses
                 /\ atoms[k].mass = <<amber_masses[exp[k].of]>>

\* the store holds the atom type CA with the mass 12.01 of C*, and the
\* mass table holds 13.0 for CA
C29_SynonymMass ==
    /\ result.op = "read_amber_parm"
    /\ result.err = ""
    /\ AmberColumns.CA \in DOMAIN amber_masses
    /\ amber_masses[AmberColumns.CA] = 1300000
    /\ AmberColumns.CA \in DOMAIN atom_types
    /\ atom_types[AmberColumns.CA].mass = <<1201000>>

\* ------------------------------------------------------------------------
\* Export torsions: the reads of export files with the atoms C1 and H2 and
\* a torsion section of one line, or of that line and a line of another
\* torsion with four amplitudes of zero
\* ------------------------------------------------------------------------

\* the amplitudes of a torsion line: 0, 0.562 and -0.4
FfldAmplitudes == {0, 56200, -40000}

FfldTorsionLines ==
    {FfldData(<<W(FfldNames.H2), W(FfldNames.C1), W(FfldNames.C1), W(FfldNames.H2),
                N(a), N(b), N(c), N(d)>>) : a, b, c, d \in FfldAmplitudes}

FfldTorsionFiles ==
    LET head == <<FfldHeader("ATOMS"), FfldLines.atoms.C1, FfldLines.atoms.H2,
                  FfldHeader("TORSIONS")>>
    IN  {head \o <<l>> : l \in FfldTorsionLines}
        \cup {head \o <<l, FfldLines.torsions.T0>> : l \in FfldTorsionLines}

ReadFfldTorsions ==
    /\ nops < MaxOps
    /\ \E f \in FfldTorsionFiles, q \in Structures :
          Finish("read_ffld", <<f, q>>, read_ffld(Store, f, q, ff_type, ignore_errors))

NextFfld == ReadFfldTorsions

SpecFfld == Init /\ [][NextFfld]_vars

\* ------------------------------------------------------------------------
\* Properties of the torsions of an export file
\* ------------------------------------------------------------------------

\* the terms the amplitudes k..4 of a torsion line stand for
RECURSIVE AmplitudeTerms(_, _)
AmplitudeTerms(line, k) ==
    IF k > 4 THEN <<>>
    ELSE (IF Float(line.toks, 3 + k) # 0
          THEN <<[twice |-> Float(line.toks, 3 + k), multiplicity |-> k * 100000,
                  phase |-> IF k \in {1, 3} THEN 0 ELSE 18000000,
                  npaths |-> 100000]>>
          ELSE <<>>) \o AmplitudeTerms(line, k + 1)

\* the lines after the header of the torsion section
FfldTorsionsOf(file) == SubSeq(file, 5, Len(file))

\* C24: a read of an export file on a store of the force field oplsaa
\* parses one torsion per torsion line; its terms are, in ascending order
\* of k, those of the amplitudes k in 1..4 that are not zero, with a force
\* constant of half the amplitude, multiplicity k, phase 0, 180, 0, 180
\* degrees and one path; a line of four zero amplitudes gives the single
\* term (0, 1, 0, 1).
C24_ExportTorsionTerms ==
    (result.op = "read_ffld" /\ ff_type = "oplsaa") =>
       LET lines == FfldTorsionsOf(result.input[1])
           ts    == OfClass(result.prms, "torsion")
       IN  /\ result.parsed
           /\ Len(ts) = Len(lines)
           /\ \A n \in 1..Len(lines) :
                 LET exp == AmplitudeTerms(lines[n], 1)
                     got == ts[n].terms
                 IN  IF exp = <<>>
                     THEN got = <<[fc |-> 0, multiplicity |-> 100000, phase |-> 0,
                                   npaths |-> 100000]>>
                     ELSE /\ Len(got) = Len(exp)
                          /\ \A i \in 1..Len(exp) :
                                /\ 2 * got[i].fc = exp[i].twice
                                /\ got[i].multiplicity = exp[i].multiplicity
                                /\ got[i].phase = exp[i].phase
                                /\ got[i].npaths = exp[i].npaths

\* the line with the amplitudes -0.4, 0, 0.562, 0 was read and its torsion
\* is stored with the terms (-0.2, 1, 0, 1) and (0.281, 3, 0, 1)
C24_Witness ==
    /\ result.op = "read_ffld"
    /\ result.err = ""
    /\ Len(result.input[1]) = 5
    /\ [k \in 1..4 |-> Float(result.input[1][5].toks, 3 + k)] = <<-40000, 0, 56200, 0>>
    /\ \E id \in DOMAIN torsions :
          torsions[id].terms =
             <<[fc |-> -20000, multiplicity |-> 100000, phase |-> 0, npaths |-> 100000],
               [fc |-> 28100, multiplicity |-> 300000, phase |-> 0, npaths |-> 100000]>>

\* a line of four zero amplitudes was read and its torsion is stored with
\* the single term of force constant 0
C24_WitnessZero ==
    /\ result.op = "read_ffld"
    /\ result.err = ""
    /\ Len(result.input[1]) = 5
    /\ [k \in 1..4 |-> Float(result.input[1][5].toks, 3 + k)] = <<0, 0, 0, 0>>
    /\ \E id \in DOMAIN torsions :
          torsions[id].terms =
             <<[fc |-> 0, multiplicity |-> 100000, phase |-> 0, npaths |-> 100000]>>

\* ------------------------------------------------------------------------
\* Properties of the atom lines of an export file
\* ------------------------------------------------------------------------

\* the data lines of the atom section of an export file, from line k on,
\* sec being the section that line k is in
RECURSIVE FfldAtomLines(_, _, _)
FfldAtomLines(file, k, sec) ==
    IF k > Len(file) THEN <<>>
    ELSE IF file[k].kind = "header" THEN FfldAtomLines(file, k + 1, file[k].section)
    ELSE (IF file[k].kind = "data" /\ sec = "ATOMS" THEN <<file[k].toks>> ELSE <<>>)
         \o FfldAtomLines(file, k + 1, sec)

\* the file holds atom lines only, all with their seven fields, and not
\* more of them than the structure has atoms
AtomsOnly(fq) ==
    LET al == FfldAtomLines(fq[1], 1, "")
    IN  /\ \A k \in 1..Len(fq[1]) :
              fq[1][k].kind = "header" => fq[1][k].section = "ATOMS"
        /\ \A k \in 1..Len(fq[1]) : fq[1][k].kind = "data" => k > 1
        /\ \A i \in 1..Len(al) :
              Len(al[i]) >= 7 /\ \A j \in 4..6 : IsFloat(al[i], j)
        /\ Len(al) <= Len(fq[2])

\* the first letters of two names differ, whatever their case
FirstLetterDiffers(a, b) == Lower(<<a[1]>>) # Lower(<<b[1]>>)

\* the index (from 1) of the atom of the structure that the i-th atom line
\* is matched to: one more than the number of distinct names of the lines
\* before it
MatchedAtom(al, i) == 1 + Cardinality({al[j][1].s : j \in 1..(i - 1)})

\* the outcome of a read of atom lines, atom(i) being the index of the atom
\* of the structure the i-th line is matched to: a mismatch of first
\* letters ends the read with QPrmError before the merge in strict mode;
\* relaxed mode logs every mismatch and parses the atom type
\* '<residue in lower case>.<name of the atom of the structure>' for every
\* line
AtomOutcome(atom(_)) ==
    LET fq   == result.input
        al   == FfldAtomLines(fq[1], 1, "")
        mism == {i \in 1..Len(al) :
                    FirstLetterDiffers(al[i][1].s, fq[2][atom(i)].name)}
    IN  IF mism # {} /\ ~ignore_errors
        THEN result.err = "QPrmError" /\ ~result.parsed
        ELSE /\ result.parsed
             /\ Cardinality(Events(result.log, "element")) = Cardinality(mism)
             /\ Len(result.prms) = Len(al)
             /\ \A i \in 1..Len(al) :
                   result.prms[i].prm_id =
                      Lower(fq[2][atom(i)].residue) \o <<46>> \o fq[2][atom(i)].name

\* C25 as stated: the i-th atom line is matched to the i-th atom of the
\* structure; a mismatch of first letters aborts the read in strict mode
\* and is logged in relaxed mode, which still creates the atom type.
C25_ElementMismatch ==
    (result.op = "read_ffld" /\ ff_type = "oplsaa" /\ AtomsOnly(result.input)) =>
       AtomOutcome(LAMBDA i : i)

\* what the reader does: an atom line is matched to the atom of the
\* structure whose index is the number of distinct atom names read before
\* the line.
C25_Observed ==
    (result.op = "read_ffld" /\ ff_type = "oplsaa" /\ AtomsOnly(result.input)
     /\ \A i \in 1..Len(FfldAtomLines(result.input[1], 1, "")) :
           MatchedAtom(FfldAtomLines(result.input[1], 1, ""), i) <= Len(result.input[2])) =>
       AtomOutcome(LAMBDA i : MatchedAtom(FfldAtomLines(result.input[1], 1, ""), i))

\* relaxed mode read the lines C1, C1, H3 with the structure C1, C2, H3:
\* a mismatch is logged and no atom type lig.H3 is stored
C25_WrongAtom ==
    /\ result.op = "read_ffld"
    /\ ignore_errors
    /\ result.err = ""
    /\ Len(result.input[2]) = 3
    /\ Events(result.log, "element") # {}
    /\ DOMAIN atom_types = {<<108, 105, 103, 46, 67, 49>>, <<108, 105, 103, 46, 67, 50>>}

\* relaxed mode read the lines C1, O2 with the structure C1, H2: the
\* mismatch is logged and the atom type lig.H2 is stored
C25_WitnessRelaxed ==
    /\ result.op = "read_ffld"
    /\ ignore_errors
    /\ result.err = ""
    /\ Len(result.input[2]) = 2
    /\ Events(result.log, "element") # {}
    /\ <<108, 105, 103, 46, 72, 50>> \in DOMAIN atom_types

\* ------------------------------------------------------------------------
\* Properties of the masses declared by a legacy file
\* ------------------------------------------------------------------------

\* the lines of the mass block that the step reads and that declare, for a
\* type the store has a mass of, a mass further than 1e-5 from it
MassMismatches ==
    IF result'.op \in LegacyOps /\ ff_type = "amber"
    THEN {i \in 1..Len(result'.input.masses) :
            LET name == ReplaceStar(result'.input.masses[i][1].s)
            IN  /\ name \in DOMAIN amber_masses
                /\ Abs(Float(result'.input.masses[i], 1) - amber_masses[name]) > 1}
    ELSE {}

\* C26 as stated: in both readers a declared mass that differs from the
\* known one aborts the read in strict mode; in relaxed mode it is logged,
\* does not abort the read, and the mass table holds the declared mass.
C26_MassPolicy ==
    [][MassMismatches # {} =>
          IF ~ignore_errors
          THEN result'.err = "QPrmError" /\ ~result'.parsed
          ELSE /\ Events(result'.log, "mass") # {}
               /\ \A i \in MassMismatches :
                     amber_masses'[ReplaceStar(result'.input.masses[i][1].s)]
                        = Float(result'.input.masses[i], 1)]_vars

\* what the readers do: the patch reader raises QPrmError in both modes;
\* the full reader raises it in strict mode and logs the mismatch in
\* relaxed mode; the mass table keeps the known mass in every case.
C26_Observed ==
    [][MassMismatches # {} =>
          /\ IF result'.op = "read_amber_frcmod" \/ ~ignore_errors
             THEN result'.err = "QPrmError" /\ ~result'.parsed
             ELSE Events(result'.log, "mass") # {}
          /\ \A i \in MassMismatches :
                amber_masses'[ReplaceStar(result'.input.masses[i][1].s)]
                   = amber_masses[ReplaceStar(result'.input.masses[i][1].s)]]_vars

\* relaxed mode: the patch reader has raised QPrmError for CT declared with
\* 13.0 while the mass table holds 12.01
C26_PatchRaises ==
    /\ ignore_errors
    /\ ff_type = "amber"
    /\ result.op = "read_amber_frcmod"
    /\ result.input.masses = <<AmberLines.masses.CT13>>
    /\ result.err = "QPrmError"
    /\ CT \in DOMAIN amber_masses
    /\ amber_masses[CT] = 1201000

\* relaxed mode: the full reader has logged the mismatch for CT declared
\* with 13.0, and the mass table holds 12.01
C26_FullKeeps ==
    /\ ignore_errors
    /\ ff_type = "amber"
    /\ result.op = "read_amber_parm"
    /\ result.input.masses = <<AmberLines.masses.CT13>>
    /\ result.err = ""
    /\ Events(result.log, "mass") # {}
    /\ amber_masses[CT] = 1201000

\* ------------------------------------------------------------------------
\* Properties of the masses that the non-bonded lines of a legacy file need
\* ------------------------------------------------------------------------

\* the types that the mass block of a legacy file declares
DeclaredTypes(file) == {ReplaceStar(file.masses[i][1].s) : i \in 1..Len(file.masses)}

\* the step reads a legacy file with a non-bonded line whose type has no
\* mass, neither in the store nor in the mass block of the file
MissingMass ==
    /\ result'.op \in LegacyOps
    /\ ff_type = "amber"
    /\ \E i \in 1..Len(result'.input.nonb) :
          ReplaceStar(result'.input.nonb[i][1].s)
             \notin (DOMAIN amber_masses \cup DeclaredTypes(result'.input))

\* C27: a legacy read with a non-bonded line whose type has no mass, in
\* the file or in the store, ends with QPrmError before the merge, and the
\* tables of the store are as before; no step removes or changes a mass of
\* the mass table, and a non-bonded line of a file without alias rows
\* whose type the file does not declare gets the mass the store held
\* before the read.
C27_MissingMass ==
    [][/\ MissingMass =>
             /\ result'.err = "QPrmError"
             /\ ~result'.parsed
             /\ tables' = tables
       /\ \A n \in DOMAIN amber_masses :
             n \in DOMAIN amber_masses' /\ amber_masses'[n] = amber_masses[n]
       /\ (result'.op \in LegacyOps /\ result'.parsed) =>
             \A k \in 1..Len(result'.prms) :
                (/\ result'.prms[k].cls = "atom"
                 /\ result'.input.same = <<>>
                 /\ result'.prms[k].prm_id \in DOMAIN amber_masses
                 /\ result'.prms[k].prm_id \notin DeclaredTypes(result'.input)) =>
                   result'.prms[k].mass = <<amber_masses[result'.prms[k].prm_id]>>]_vars

\* a file that declares the mass of HC only and has a non-bonded line of
\* CT was read first: QPrmError, the tables are empty, and the mass of HC
\* is in the mass table
C27_Witness ==
    /\ nops = 1
    /\ ff_type = "amber"
    /\ result.op \in LegacyOps
    /\ result.input.masses = <<AmberLines.masses.HC>>
    /\ result.input.nonb = <<AmberLines.nonb.CT>>
    /\ result.err = "QPrmError"
    /\ Store.bonds = EmptyDict /\ Store.atom_types = EmptyDict
    /\ DOMAIN amber_masses = {HC}

\* the same file was read after a file that declares the mass of CT: the
\* atom type CT is stored with that mass
C27_WitnessEarlierMass ==
    /\ nops = 2
    /\ result.op \in LegacyOps
    /\ result.input.masses = <<AmberLines.masses.HC>>
    /\ result.input.nonb = <<AmberLines.nonb.CT>>
    /\ result.err = ""
    /\ CT \in DOMAIN atom_types
    /\ atom_types[CT].mass = <<1201000>>

\* ------------------------------------------------------------------------
\* Properties of the tables of generic and concrete records
\* ------------------------------------------------------------------------

\* every record of the store is of the class of its table
ClassesApart ==
    /\ \A id \in DOMAIN atom_types : atom_types[id].cls = "atom"
    /\ \A id \in DOMAIN bonds : bonds[id].cls = "bond"
    /\ \A id \in DOMAIN angles : angles[id].cls = "angle"
    /\ \A id \in DOMAIN generic_torsions \cup DOMAIN torsions :
          Store[IF id \in DOMAIN torsions THEN "torsions" ELSE "generic_torsions"][id].cls
             = "torsion"
    /\ \A id \in DOMAIN generic_impropers \cup DOMAIN impropers :
          Store[IF id \in DOMAIN impropers THEN "impropers" ELSE "generic_impropers"][id].cls
             = "improper"
    /\ \A tn \in TableNames : \A id \in DOMAIN Store[tn] : Store[tn][id].prm_id = id

\* the wildcards among the peripheral atom types of the identity of an
\* improper: all its tokens but the second, the center
PeripheralWildcards(id) == Occurrences(Without(Split(id), 1), WILD)

\* C28: no key of the tables of concrete torsions and concrete impropers
\* holds a wildcard token, every key of the generic tables holds at least
\* one, and every record is in a table of its class.
C28_GenericTables ==
    /\ \A id \in DOMAIN torsions : Wildcards(id) = 0
    /\ \A id \in DOMAIN impropers : Wildcards(id) = 0
    /\ \A id \in DOMAIN generic_torsions : Wildcards(id) > 0
    /\ \A id \in DOMAIN generic_impropers : Wildcards(id) > 0
    /\ ClassesApart

\* what the store does: a torsion is in the generic table exactly when one
\* of its tokens is the wildcard, an improper exactly when one of its
\* peripheral tokens is; the center of a concrete improper can be the
\* wildcard; every record is in a table of its class.
C28_Observed ==
    /\ \A id \in DOMAIN torsions : Wildcards(id) = 0
    /\ \A id \in DOMAIN generic_torsions : Wildcards(id) > 0
    /\ \A id \in DOMAIN impropers : PeripheralWildcards(id) = 0
    /\ \A id \in DOMAIN generic_impropers : PeripheralWildcards(id) > 0
    /\ ClassesApart

\* the improper with the wildcard as center is in the table of concrete
\* impropers
C28_WildcardCenter ==
    /\ result.op = "read_prm"
    /\ result.err = ""
    /\ Join(<<tA, WILD, tB, tC>>) \in DOMAIN impropers

\* ------------------------------------------------------------------------
\* Properties of the two phases of a read
\* ------------------------------------------------------------------------

\* the records of the lines of a native file before its k-th line
ParsedBefore(file, k) ==
    LET ps == read_prm_lines(ParseInit(<<>>), SubSeq(file, 1, k - 1), ff_type)
    IN  IF ps.err = "" THEN MergeOrder(ps) ELSE <<>>

\* C30: a read that ends with an error raised while parsing leaves the
\* tables of atom types, bonds, angles, torsions, generic torsions,
\* impropers and generic impropers as they were before the call, in all
\* four readers; a read changes a table only after its last line parsed.
C30_ParseBeforeMerge ==
    [][(result'.op \in ReadOps /\ ~result'.parsed) =>
          /\ result'.err # ""
          /\ result'.prms = <<>>
          /\ tables' = tables]_vars

\* a native file whose second line gives a record the store does not hold
\* and whose third line does not parse was read into a store that holds a
\* record: QPrmError, and the tables hold what they held
C30_Witness ==
    /\ nops = 2
    /\ result.op = "read_prm"
    /\ result.err = "QPrmError"
    /\ ~result.parsed
    /\ Len(result.input) = 3
    /\ LET before == ParsedBefore(result.input, 3)
       IN  /\ Len(before) = 1
           /\ before[1].prm_id \notin DOMAIN Store[TableOf(before[1])]
    /\ Size(Store) > 0

\* the native file with a bond and, after it, a section that is not known
\* was read: QPrmError, and the bond is not stored
C30_WitnessUnknownSection ==
    /\ result.op = "read_prm"
    /\ result.err = "QPrmError"
    /\ ~result.parsed
    /\ Len(result.input) = 4
    /\ result.input[1] = Header("bonds")
    /\ result.input[3] = Header("molecules")
    /\ Len(ParsedBefore(result.input, 3)) = 1
    /\ Store.bonds = EmptyDict

\* a native file with the same torsion line twice was read: the second
\* line repeats the multiplicity, QPrmError, and the torsion is not stored
C30_WitnessDuplicateTerm ==
    /\ result.op = "read_prm"
    /\ result.err = "QPrmError"
    /\ ~result.parsed
    /\ Len(result.input) = 3
    /\ result.input[1] = Header("torsions")
    /\ result.input[2] = result.input[3]
    /\ Len(ParsedBefore(result.input, 3)) = 1
    /\ Store.torsions = EmptyDict /\ Store.generic_torsions = EmptyDict

\* the legacy file with a bond line and an improper line of multiplicity 3
\* was read: the constructor of the improper raises (AttributeError, from
\* the message of the QPrmError it builds), and the bond is not stored
C30_WitnessMultiplicity ==
    /\ result.op = "read_amber_parm"
    /\ ff_type = "amber"
    /\ result.err = "AttributeError"
    /\ ~result.parsed
    /\ result.input.bonds = <<AmberLines.bonds.CTHC>>
    /\ result.input.impropers = <<AmberLines.impropers.Mult3>>
    /\ Store.bonds = EmptyDict

\* the legacy file with a bond line and a non-bonded line of a type without
\* mass was read: QPrmError, and the bond is not stored
C30_WitnessMissingMass ==
    /\ result.op = "read_amber_parm"
    /\ ff_type = "amber"
    /\ result.err = "QPrmError"
    /\ ~result.parsed
    /\ result.input.bonds = <<AmberLines.bonds.CTHC>>
    /\ result.input.nonb = <<AmberLines.nonb.CT>>
    /\ DOMAIN amber_masses = {HC}
    /\ Store.bonds = EmptyDict

\* strict mode read the export with the atom lines C1 and O2 and the
\* structure C1, H2: QPrmError at the second line, and the atom type of
\* the first is not stored
C30_WitnessElement ==
    /\ result.op = "read_ffld"
    /\ ff_type = "oplsaa"
    /\ ~ignore_errors
    /\ result.err = "QPrmError"
    /\ ~result.parsed
    /\ result.input[1] = <<FfldHeader("ATOMS"), FfldLines.atoms.C1, FfldLines.atoms.O2>>
    /\ Store.atom_types = EmptyDict

====
